---- MODULE Spec2Model ----
(***************************************************************************)
(* A model of iBOB/network_implementation.py: a Network of Entities that   *)
(* own Assets directly or through Partnership edges, the propagation of    *)
(* derived PartnershipAssets, the tax computation and process_transaction. *)
(*                                                                         *)
(* Python objects are modelled by their identity: Entity, Asset and        *)
(* Partnership objects are numbered in creation order and kept in three    *)
(* heaps; Network.entities and Network.assets are the dicts, in insertion  *)
(* order, from a name to an object.  A PartnershipAsset is the value       *)
(* [root, shares, inside_basis]: the chain of original_asset references    *)
(* ends in the Asset `root`, `shares` are the shares of the proxies along  *)
(* the chain (innermost first), so that fmv, name and type_of_asset are    *)
(* read through as the properties of the class do.                         *)
(*                                                                         *)
(* Money is counted in units of 1/Unit and a share is a number of          *)
(* 1/ShareDen, so that every product share * value of the program is an    *)
(* exact integer here.                                                     *)
(***************************************************************************)
EXTENDS Integers, Sequences, FiniteSets, TLC

\* ------------------------------------------------------------ bounds
\* the networks of Spec: any acyclic graph of this size, one transaction
MaxEntities == 3
MaxAssets == 2
MaxPartnerships == 2
MaxTransactions == 1
\* the networks of SpecTrade: one asset under one edge, a few transactions
TradeAssets == 1
TradePartnerships == 1
TradeTransactions == 2
\* the networks of SpecLoss: assets with a built-in loss, one edge, one transaction
LossAssets == 2
LossPartnerships == 1
LossTransactions == 1
\* the networks of SpecOpen: entity objects, registered or not and with names
\* used again, one asset, one edge, one transaction
OpenEntities == 3
OpenAssets == 1
OpenPartnerships == 1
OpenTransactions == 1
\* the networks of SpecDeep: chains of up to four entities, each holder
\* registered after its partner, then one call
DeepEntities == 4
DeepAssets == 2
DeepPartnerships == 3
DeepTransactions == 1
\* the networks of SpecRebuild: entities registered in any order, then the
\* rebuild of the lists once more, before or after the sale of a Partnership
RebuildEntities == 3
RebuildAssets == 2
RebuildPartnerships == 2
RebuildTransactions == 1

\* ------------------------------------------------------------ numbers
ShareDen == 4

RECURSIVE Pow(_, _)
Pow(b, k) == IF k = 0 THEN 1 ELSE b * Pow(b, k - 1)

\* One currency unit.  A proxy k levels above its Asset carries k shares and
\* a tax amount one more, and an acyclic chain of entities has fewer levels
\* than entities.
Unit == Pow(ShareDen, MaxEntities)

\* share * x
Mul(share, x) == (share * x) \div ShareDen

\* 1 - share_sum
Remaining(share_sum) == ShareDen - share_sum

\* ------------------------------------------------------------ inputs
NameOrder == <<"A", "B", "C">>
Names == {NameOrder[i] : i \in DOMAIN NameOrder}
Shares == {1}
TradeShares == {1, 2}
CashAmounts == {200 * Unit}
\* the cash an entity starts with: one of them has just the price of a deal
InitialCash(n) == IF n = "C" THEN {200 * Unit} ELSE {1000 * Unit}
AssetInputs ==
    { [name |-> "H", type_of_asset |-> "Material", basis |-> 120 * Unit,
       has_fmv |-> TRUE, fmv |-> 200 * Unit],
      [name |-> "N", type_of_asset |-> "Annuity", basis |-> 100 * Unit,
       has_fmv |-> FALSE, fmv |-> 0] }
\* the Material asset and an Annuity whose fmv is given, above its basis
DeepAssetInputs ==
    { [name |-> "H", type_of_asset |-> "Material", basis |-> 120 * Unit,
       has_fmv |-> TRUE, fmv |-> 200 * Unit],
      [name |-> "Y", type_of_asset |-> "Annuity", basis |-> 100 * Unit,
       has_fmv |-> TRUE, fmv |-> 200 * Unit] }
\* assets with a built-in loss above the threshold and of just the threshold
OpenNames == {"A", "B"}
OpenCash == {200 * Unit, 1000 * Unit}
LossShares == {2, 4}
LossAssetInputs ==
    { [name |-> "L", type_of_asset |-> "Material", basis |-> 1000000 * Unit,
       has_fmv |-> TRUE, fmv |-> 700000 * Unit],
      [name |-> "M", type_of_asset |-> "Material", basis |-> 1000000 * Unit,
       has_fmv |-> TRUE, fmv |-> 750000 * Unit],
      [name |-> "Q", type_of_asset |-> "Annuity", basis |-> 1000000 * Unit,
       has_fmv |-> TRUE, fmv |-> 700000 * Unit] }

DeepNameOrder == <<"A", "B", "C", "D">>

\* ------------------------------------------------------------ state
VARIABLES
    entities,        \* Network.entities: <<[name, obj]>> in insertion order
    assets,          \* Network.assets: <<[name, obj]>> in insertion order
    tax_records,     \* Network.tax_records: name -> number
    entityObjs,      \* the Entity objects, by identity
    assetObjs,       \* the Asset objects, by identity
    partnershipObjs, \* the Partnership objects, by identity
    ntx,             \* process_transaction calls that passed validation
    last,            \* the last call and how it ended
    before           \* the network as the last process_transaction found it
                     \* (under SpecOpen: as the last call found it)

vars == <<entities, assets, tax_records, entityObjs, assetObjs,
          partnershipObjs, ntx, last, before>>

\* The network and its objects as one value, as the methods see them.  exc is
\* the exception being raised ("" when none); alias is the list object that
\* adjust_ownership makes two entities share for the time of a transfer.
NoAlias == [from |-> 0, to |-> 0, key |-> 0]

Net ==
    [entities |-> entities, assets |-> assets, tax_records |-> tax_records,
     entityObjs |-> entityObjs, assetObjs |-> assetObjs,
     partnershipObjs |-> partnershipObjs, exc |-> "", alias |-> NoAlias]

\* Network.__init__
EmptyNetwork ==
    [entities |-> <<>>, assets |-> <<>>, tax_records |-> <<>>,
     entityObjs |-> <<>>, assetObjs |-> <<>>, partnershipObjs |-> <<>>,
     exc |-> "", alias |-> NoAlias]

Raise(N, e) == [N EXCEPT !.exc = e]

\* While an exception propagates no further statement runs: every method below
\* hands a network with exc set back as it got it.
Raised(N) == N.exc # ""

\* ------------------------------------------------------------ dicts
RECURSIVE DictIndex(_, _, _)
DictIndex(d, key, i) ==
    IF i > Len(d) THEN 0
    ELSE IF d[i].name = key THEN i ELSE DictIndex(d, key, i + 1)

DictHas(d, key) == DictIndex(d, key, 1) # 0
DictGet(d, key) == d[DictIndex(d, key, 1)].obj

\* d[key] = obj: an existing key keeps its place
DictSet(d, key, obj) ==
    IF DictHas(d, key)
    THEN [d EXCEPT ![DictIndex(d, key, 1)] = [name |-> key, obj |-> obj]]
    ELSE Append(d, [name |-> key, obj |-> obj])

\* ------------------------------------------------------------ sequences
RECURSIVE SeqSum(_)
SeqSum(s) == IF s = <<>> THEN 0 ELSE Head(s) + SeqSum(Tail(s))

RECURSIVE Flatten(_)
Flatten(ss) == IF ss = <<>> THEN <<>> ELSE Head(ss) \o Flatten(Tail(ss))

RECURSIVE IndexOf(_, _, _)
IndexOf(s, x, i) ==
    IF i > Len(s) THEN 0 ELSE IF s[i] = x THEN i ELSE IndexOf(s, x, i + 1)

Contains(s, x) == IndexOf(s, x, 1) # 0

RemoveAt(s, i) == SubSeq(s, 1, i - 1) \o SubSeq(s, i + 1, Len(s))

\* list.remove(x): the first occurrence
ListRemove(s, x) == RemoveAt(s, IndexOf(s, x, 1))

Range(s) == {s[i] : i \in DOMAIN s}

\* ------------------------------------------------------------ Asset, PartnershipAsset
\* Asset.__init__: fmv defaults to the basis
Asset(name, type_of_asset, basis, has_fmv, fmv) ==
    [name |-> name, type_of_asset |-> type_of_asset, basis |-> basis,
     fmv |-> IF has_fmv THEN fmv ELSE basis]

\* An Asset object where the code takes "an Asset or a PartnershipAsset": the
\* chain of proxies above it is empty.
AssetItem(a) == [root |-> a, shares |-> <<>>, inside_basis |-> 0]

\* isinstance(x, Asset)
IsAsset(x) == x.shares = <<>>

\* PartnershipAsset(original_asset, share, inside_basis)
PartnershipAsset(original_asset, share, inside_basis) ==
    [root |-> original_asset.root,
     shares |-> Append(original_asset.shares, share),
     inside_basis |-> inside_basis]

\* x.fmv: an Asset's field, and PartnershipAsset.fmv = original_asset.fmv * share
RECURSIVE ChainFmv(_, _, _)
ChainFmv(v, shares, k) ==
    IF k > Len(shares) THEN v ELSE ChainFmv(Mul(shares[k], v), shares, k + 1)

\* A faulty fmv that reads through to the base Asset and applies the proxy's
\* own share alone.
fmv_of_root(N, x) ==
    IF IsAsset(x) THEN N.assetObjs[x.root].fmv
    ELSE Mul(x.shares[Len(x.shares)], N.assetObjs[x.root].fmv)

fmv(N, x) == ChainFmv(N.assetObjs[x.root].fmv, x.shares, 1)

\* x.name and x.type_of_asset, resolved through the chain of original_asset
name(N, x) == N.assetObjs[x.root].name
type_of_asset(N, x) == N.assetObjs[x.root].type_of_asset

\* PartnershipAsset.share
share(x) == x.shares[Len(x.shares)]

\* A faulty inside_basis that is not scaled by the share.
unscaled_basis(N, x, s) ==
    IF IsAsset(x) THEN N.assetObjs[x.root].basis ELSE x.inside_basis

\* asset.basis * share if isinstance(asset, Asset) else asset.inside_basis * share
scaled_basis(N, x, s) ==
    IF IsAsset(x) THEN Mul(s, N.assetObjs[x.root].basis)
    ELSE Mul(s, x.inside_basis)

\* ------------------------------------------------------------ Entity
Entity(name_, cash_balance) ==
    [name |-> name_, direct_assets |-> <<>>, partnerships |-> <<>>,
     cash_balance |-> cash_balance]

\* the place of key p in the dict entity.partnerships (0: not a key)
RECURSIVE KeyIndex(_, _, _)
KeyIndex(ps, p, i) ==
    IF i > Len(ps) THEN 0
    ELSE IF ps[i].key = p THEN i ELSE KeyIndex(ps, p, i + 1)

HasKey(N, e, p) == KeyIndex(N.entityObjs[e].partnerships, p, 1) # 0

\* The entity whose dict holds the list object entity.partnerships[p]: during
\* a transfer the giver's entry is the receiver's list object.
ListOwner(N, e, p) ==
    IF N.alias.from = e /\ N.alias.key = p THEN N.alias.to ELSE e

\* entity.partnerships[p]
GetList(N, e, p) ==
    LET o == ListOwner(N, e, p)
        ps == N.entityObjs[o].partnerships
    IN ps[KeyIndex(ps, p, 1)].assets

\* a write to the list object entity.partnerships[p]
SetList(N, e, p, l) ==
    LET o == ListOwner(N, e, p)
        ps == N.entityObjs[o].partnerships
    IN [N EXCEPT !.entityObjs[o].partnerships[KeyIndex(ps, p, 1)].assets = l]

\* entity.partnerships[p] = l: a new key goes last
SetKey(N, e, p, l) ==
    IF HasKey(N, e, p) THEN SetList(N, e, p, l)
    ELSE [N EXCEPT !.entityObjs[e].partnerships =
                        Append(@, [key |-> p, assets |-> l])]

\* del entity.partnerships[p]
DelKey(N, e, p) ==
    LET ps == N.entityObjs[e].partnerships
    IN [N EXCEPT !.entityObjs[e].partnerships = RemoveAt(ps, KeyIndex(ps, p, 1))]

\* the keys of entity.partnerships, in order
Keys(N, e) ==
    LET ps == N.entityObjs[e].partnerships
    IN [i \in 1..Len(ps) |-> ps[i].key]

\* sum(entity.partnerships.values(), [])
FlatPartnerships(N, e) ==
    LET ks == Keys(N, e)
    IN Flatten([i \in 1..Len(ks) |-> GetList(N, e, ks[i])])

\* Entity.add_asset
Entity_add_asset(N, e, a) ==
    [N EXCEPT !.entityObjs[e].direct_assets = Append(@, a)]

\* A faulty Entity.remove_asset that forgets the removal: the giver of an
\* asset would keep it.
Entity_remove_asset_forgotten(N, e, a) == N

\* Entity.remove_asset: list.remove raises ValueError when a is absent
Entity_remove_asset(N, e, a) ==
    IF Raised(N) THEN N
    ELSE IF ~Contains(N.entityObjs[e].direct_assets, a) THEN Raise(N, "ValueError")
    ELSE [N EXCEPT !.entityObjs[e].direct_assets = ListRemove(@, a)]

\* A faulty Entity.update_partnership_assets that fills an empty list and
\* leaves a list that has proxies as it is.
update_partnership_assets_keeping(N, e, p, partner) ==
    LET Refill(N1) ==
            LET direct == N1.entityObjs[partner].direct_assets
                all_partner_assets ==
                    [i \in 1..Len(direct) |-> AssetItem(direct[i])]
                        \o FlatPartnerships(N1, partner)
                s == N1.partnershipObjs[p].share
                Proxy(partner_asset) ==
                    PartnershipAsset(partner_asset, s,
                                     scaled_basis(N1, partner_asset, s))
            IN SetList(N1, e, p,
                       [i \in 1..Len(all_partner_assets) |->
                           Proxy(all_partner_assets[i])])
    IN IF GetList(N, e, p) # <<>> THEN N ELSE Refill(N)

\* Entity.update_partnership_assets
update_partnership_assets(N, e, p, partner) ==
    LET Refill(N1) ==
            LET direct == N1.entityObjs[partner].direct_assets
                all_partner_assets ==
                    [i \in 1..Len(direct) |-> AssetItem(direct[i])]
                        \o FlatPartnerships(N1, partner)
                s == N1.partnershipObjs[p].share
                Proxy(partner_asset) ==
                    PartnershipAsset(partner_asset, s,
                                     scaled_basis(N1, partner_asset, s))
            IN SetList(N1, e, p,
                       [i \in 1..Len(all_partner_assets) |->
                           Proxy(all_partner_assets[i])])
    IN Refill(SetList(N, e, p, <<>>))

\* Entity.add_partnership
Entity_add_partnership(N, e, p, partner) ==
    LET Update(N1) == update_partnership_assets(N1, e, p, partner)
    IN Update(IF HasKey(N, e, p) THEN N ELSE SetKey(N, e, p, <<>>))

\* ------------------------------------------------------------ Partnership
Partnership(partner_name, share_) == [partner_name |-> partner_name, share |-> share_]

\* ------------------------------------------------------------ Network: construction
\* Network.update_initial_partnership_assets: the entities in the order of the
\* dict, each one's partnerships in the order of its dict; j is the place in
\* the partnerships of the k-th entity.
RECURSIVE UpdateLoop(_, _, _)
UpdateLoop(N, k, j) ==
    IF Raised(N) \/ k > Len(N.entities) THEN N
    ELSE LET e == N.entities[k].obj
             ks == Keys(N, e)
         IN IF j > Len(ks) THEN UpdateLoop(N, k + 1, 1)
            ELSE LET pn == N.partnershipObjs[ks[j]].partner_name
                 IN IF ~DictHas(N.entities, pn) THEN Raise(N, "KeyError")
                    ELSE UpdateLoop(
                             update_partnership_assets(N, e, ks[j],
                                                       DictGet(N.entities, pn)),
                             k, j + 1)

update_initial_partnership_assets(N) == UpdateLoop(N, 1, 1)

\* Network.add_entity
add_entity(N, name_, cash_amount) ==
    LET obj == Len(N.entityObjs) + 1
    IN [N EXCEPT !.entityObjs = Append(@, Entity(name_, cash_amount)),
                 !.entities = DictSet(@, name_, obj),
                 !.tax_records = (name_ :> 0) @@ @]

\* Network.add_asset
add_asset(N, owner, name_, type_, basis, has_fmv, fmv_) ==
    LET obj == Len(N.assetObjs) + 1
    IN update_initial_partnership_assets(
           [Entity_add_asset(
                [N EXCEPT !.assetObjs =
                     Append(@, Asset(name_, type_, basis, has_fmv, fmv_))],
                owner, obj)
            EXCEPT !.assets = DictSet(@, name_, obj)])

\* Network.add_partnership
add_partnership(N, entity1, partner_entity, share_) ==
    LET obj == Len(N.partnershipObjs) + 1
    IN update_initial_partnership_assets(
           Entity_add_partnership(
               [N EXCEPT !.partnershipObjs =
                    Append(@, Partnership(N.entityObjs[partner_entity].name, share_))],
               entity1, obj, partner_entity))

\* ------------------------------------------------------------ Network: validation
\* the goods of a Transaction: an Asset, a Partnership or a number
AssetGood(a) == [kind |-> "Asset", v |-> a]
PartnershipGood(p) == [kind |-> "Partnership", v |-> p]
CashGood(x) == [kind |-> "cash", v |-> x]

Transaction(entity1, entity2, good1, good2, election754) ==
    [entity1 |-> entity1, entity2 |-> entity2, good1 |-> good1,
     good2 |-> good2, election754 |-> election754]

\* A faulty is_transaction_viable that does not look at the cash balance.
is_transaction_viable_raises_overdrawn(N, entity, good) ==
    \/ good.kind = "Asset" /\ ~Contains(N.entityObjs[entity].direct_assets, good.v)
    \/ good.kind = "Partnership" /\ ~HasKey(N, entity, good.v)

\* A faulty is_transaction_viable that takes "<=" for "<": paying one's whole
\* balance would be refused.
is_transaction_viable_raises_le(N, entity, good) ==
    \/ good.kind = "Asset" /\ ~Contains(N.entityObjs[entity].direct_assets, good.v)
    \/ good.kind = "Partnership" /\ ~HasKey(N, entity, good.v)
    \/ good.kind = "cash" /\ N.entityObjs[entity].cash_balance <= good.v

\* Network.is_transaction_viable: whether it raises ValueError
is_transaction_viable_raises(N, entity, good) ==
    IF good.kind = "Asset" /\ ~Contains(N.entityObjs[entity].direct_assets, good.v)
    THEN TRUE
    ELSE IF good.kind = "Partnership" /\ ~HasKey(N, entity, good.v)
    THEN TRUE
    ELSE IF good.kind = "cash" /\ N.entityObjs[entity].cash_balance < good.v
    THEN TRUE
    ELSE FALSE

is_transaction_viable(N, entity, good) ==
    IF Raised(N) THEN N
    ELSE IF is_transaction_viable_raises(N, entity, good) THEN Raise(N, "ValueError")
    ELSE N

\* ------------------------------------------------------------ Network: propagation
\* The depth at which a recursion over the holders of an entity, the holders
\* of those, ... has met some entity twice: it never returns, and Python
\* raises RecursionError.
RecursionLimit(N) == Len(N.entityObjs) + 1

PointsAt(N, p, entity) ==
    N.partnershipObjs[p].partner_name = N.entityObjs[entity].name

\* Network.add_asset_upstream.  In the loops, k is the place of other_entity in
\* Network.entities and j the place of partnership in other_entity.partnerships.
RECURSIVE add_asset_upstream(_, _, _, _)
RECURSIVE AddAssetLoop(_, _, _, _, _, _)
AddAssetLoop(N, entity, good, d, k, j) ==
    IF Raised(N) \/ k > Len(N.entities) THEN N
    ELSE LET other == N.entities[k].obj
             ks == Keys(N, other)
         IN IF j > Len(ks) THEN AddAssetLoop(N, entity, good, d, k + 1, 1)
            ELSE IF ~PointsAt(N, ks[j], entity)
            THEN AddAssetLoop(N, entity, good, d, k, j + 1)
            ELSE LET s == N.partnershipObjs[ks[j]].share
                     new_asset == PartnershipAsset(good, s, scaled_basis(N, good, s))
                 IN AddAssetLoop(
                        add_asset_upstream(
                            SetList(N, other, ks[j],
                                    Append(GetList(N, other, ks[j]), new_asset)),
                            other, new_asset, d + 1),
                        entity, good, d, k, j + 1)

\* A faulty add_asset_upstream that stops at the holders of the entity and
\* gives nothing to the holders above them.
add_asset_upstream_one_level(N, entity, good, d) ==
    IF Raised(N) \/ d > 1 THEN N
    ELSE AddAssetLoop(N, entity, good, d, 1, 1)

add_asset_upstream(N, entity, good, d) ==
    IF Raised(N) THEN N
    ELSE IF d > RecursionLimit(N) THEN Raise(N, "RecursionError")
    ELSE AddAssetLoop(N, entity, good, d, 1, 1)

\* Network.remove_asset_upstream.  i is the list iterator's index into
\* other_entity.partnerships[partnership], a list the loop body shortens.
RECURSIVE remove_asset_upstream(_, _, _, _)
RECURSIVE RemoveAssetLoop(_, _, _, _, _, _, _)
RemoveAssetLoop(N, entity, good, d, k, j, i) ==
    IF Raised(N) \/ k > Len(N.entities) THEN N
    ELSE LET other == N.entities[k].obj
             ks == Keys(N, other)
         IN IF j > Len(ks) THEN RemoveAssetLoop(N, entity, good, d, k + 1, 1, 1)
            ELSE IF ~PointsAt(N, ks[j], entity)
            THEN RemoveAssetLoop(N, entity, good, d, k, j + 1, 1)
            ELSE LET l == GetList(N, other, ks[j])
                 IN IF i > Len(l) THEN RemoveAssetLoop(N, entity, good, d, k, j + 1, 1)
                    ELSE IF name(N, l[i]) # name(N, good)
                    THEN RemoveAssetLoop(N, entity, good, d, k, j, i + 1)
                    ELSE RemoveAssetLoop(
                             remove_asset_upstream(
                                 SetList(N, other, ks[j], ListRemove(l, l[i])),
                                 other, l[i], d + 1),
                             entity, good, d, k, j, i + 1)

remove_asset_upstream(N, entity, good, d) ==
    IF Raised(N) THEN N
    ELSE IF d > RecursionLimit(N) THEN Raise(N, "RecursionError")
    ELSE RemoveAssetLoop(N, entity, good, d, 1, 1, 1)

\* Network.add_partnership_upstream.  The inner loop appends one proxy per
\* item of entity.partnerships[partnership_of_interest] to the holder's list;
\* when the two are one list object it appends to the list it iterates and
\* never ends unless the list is empty.
RECURSIVE add_partnership_upstream(_, _, _, _)
RECURSIVE AddPartnershipLoop(_, _, _, _, _, _)
AddPartnershipLoop(N, entity, poi, d, k, j) ==
    IF Raised(N) \/ k > Len(N.entities) THEN N
    ELSE LET other == N.entities[k].obj
             ks == Keys(N, other)
         IN IF j > Len(ks) THEN AddPartnershipLoop(N, entity, poi, d, k + 1, 1)
            ELSE IF ~PointsAt(N, ks[j], entity)
            THEN AddPartnershipLoop(N, entity, poi, d, k, j + 1)
            ELSE IF ~HasKey(N, entity, poi) THEN Raise(N, "KeyError")
            ELSE LET s == N.partnershipObjs[ks[j]].share
                     new_partner_assets == GetList(N, entity, poi)
                     same == /\ ListOwner(N, entity, poi) = ListOwner(N, other, ks[j])
                             /\ poi = ks[j]
                     Proxy(asset) ==
                         PartnershipAsset(asset, s, scaled_basis(N, asset, s))
                     added == [i \in 1..Len(new_partner_assets) |->
                                   Proxy(new_partner_assets[i])]
                 IN IF same /\ new_partner_assets # <<>> THEN Raise(N, "MemoryError")
                    ELSE AddPartnershipLoop(
                             add_partnership_upstream(
                                 SetList(N, other, ks[j],
                                         GetList(N, other, ks[j]) \o added),
                                 other, ks[j], d + 1),
                             entity, poi, d, k, j + 1)

add_partnership_upstream(N, entity, poi, d) ==
    IF Raised(N) THEN N
    ELSE IF d > RecursionLimit(N) THEN Raise(N, "RecursionError")
    ELSE AddPartnershipLoop(N, entity, poi, d, 1, 1)

\* Network.remove_partnership_upstream.  names is asset_names_to_remove, taken
\* from entity.partnerships.get(partnership_of_interest, []) before the loops.
RECURSIVE remove_partnership_upstream(_, _, _, _)
RECURSIVE RemovePartnershipLoop(_, _, _, _, _, _)
RemovePartnershipLoop(N, entity, names, d, k, j) ==
    IF Raised(N) \/ k > Len(N.entities) THEN N
    ELSE LET other == N.entities[k].obj
             ks == Keys(N, other)
         IN IF j > Len(ks) THEN RemovePartnershipLoop(N, entity, names, d, k + 1, 1)
            ELSE IF ~PointsAt(N, ks[j], entity)
            THEN RemovePartnershipLoop(N, entity, names, d, k, j + 1)
            ELSE RemovePartnershipLoop(
                     remove_partnership_upstream(
                         SetList(N, other, ks[j],
                                 SelectSeq(GetList(N, other, ks[j]),
                                           LAMBDA pa : name(N, pa) \notin names)),
                         other, ks[j], d + 1),
                     entity, names, d, k, j + 1)

remove_partnership_upstream(N, entity, poi, d) ==
    IF Raised(N) THEN N
    ELSE IF d > RecursionLimit(N) THEN Raise(N, "RecursionError")
    ELSE LET old_partner_assets ==
                 IF HasKey(N, entity, poi) THEN GetList(N, entity, poi) ELSE <<>>
             asset_names_to_remove ==
                 {name(N, old_partner_assets[i]) : i \in DOMAIN old_partner_assets}
         IN RemovePartnershipLoop(N, entity, asset_names_to_remove, d, 1, 1)

\* ------------------------------------------------------------ Network: ownership
\* A faulty transfer of an Asset that leaves the basis as it was.
adjust_ownership_asset_no_step_up(N, entity_from, entity_to, good) ==
    remove_asset_upstream(
        Entity_remove_asset(
            add_asset_upstream(Entity_add_asset(N, entity_to, good.v),
                               entity_to, AssetItem(good.v), 1),
            entity_from, good.v),
        entity_from, AssetItem(good.v), 1)

\* A faulty transfer of an Asset that hands the receiver the asset and leaves
\* it with the giver as well.
adjust_ownership_asset_copy(N, entity_from, entity_to, good) ==
    add_asset_upstream(
        Entity_add_asset(
            [N EXCEPT !.assetObjs[good.v].basis = N.assetObjs[good.v].fmv],
            entity_to, good.v),
        entity_to, AssetItem(good.v), 1)

\* A faulty transfer of an Asset that hands the receiver's holders their
\* proxies before the basis steps up.
adjust_ownership_asset_late_step_up(N, entity_from, entity_to, good) ==
    remove_asset_upstream(
        Entity_remove_asset(
            [add_asset_upstream(Entity_add_asset(N, entity_to, good.v),
                                entity_to, AssetItem(good.v), 1)
                EXCEPT !.assetObjs[good.v].basis = N.assetObjs[good.v].fmv],
            entity_from, good.v),
        entity_from, AssetItem(good.v), 1)

\* Network.adjust_ownership, isinstance(good, Asset): the basis steps up to the
\* fmv, the receiver gets the asset and its holders a proxy, the giver loses
\* it and its holders their proxies
adjust_ownership_asset(N, entity_from, entity_to, good) ==
    remove_asset_upstream(
        Entity_remove_asset(
            add_asset_upstream(
                Entity_add_asset(
                    [N EXCEPT !.assetObjs[good.v].basis = N.assetObjs[good.v].fmv],
                    entity_to, good.v),
                entity_to, AssetItem(good.v), 1),
            entity_from, good.v),
        entity_from, AssetItem(good.v), 1)

\* A faulty transfer of a Partnership that leaves the giver's entry in place.
adjust_ownership_partnership_kept(N, entity_from, entity_to, good) ==
    IF ~HasKey(N, entity_from, good.v) THEN Raise(N, "KeyError")
    ELSE
    LET partner_assets == GetList(N, entity_from, good.v)
        Shared(N1) ==
            IF entity_from = entity_to THEN N1
            ELSE [N1 EXCEPT !.alias = [from |-> entity_from, to |-> entity_to,
                                       key |-> good.v]]
    IN remove_partnership_upstream(
           add_partnership_upstream(
               Shared(SetKey(N, entity_to, good.v, partner_assets)),
               entity_to, good.v, 1),
           entity_from, good.v, 1)

\* Network.adjust_ownership, isinstance(good, Partnership): the receiver's
\* entry is the giver's list object until the giver's entry is deleted
adjust_ownership_partnership(N, entity_from, entity_to, good) ==
    IF ~HasKey(N, entity_from, good.v) THEN Raise(N, "KeyError")
    ELSE
    LET partner_assets == GetList(N, entity_from, good.v)
        Shared(N1) ==
            IF entity_from = entity_to THEN N1
            ELSE [N1 EXCEPT !.alias = [from |-> entity_from, to |-> entity_to,
                                       key |-> good.v]]
        Delete(N4) ==
            IF Raised(N4) THEN N4
            ELSE [DelKey(N4, entity_from, good.v) EXCEPT !.alias = NoAlias]
    IN Delete(
           remove_partnership_upstream(
               add_partnership_upstream(
                   Shared(SetKey(N, entity_to, good.v, partner_assets)),
                   entity_to, good.v, 1),
               entity_from, good.v, 1))

\* A faulty transfer of cash that debits the giver and forgets the receiver.
adjust_ownership_cash_debit_only(N, entity_from, entity_to, good) ==
    [N EXCEPT !.entityObjs[entity_from].cash_balance = @ - good.v]

\* A faulty transfer of cash that credits the receiver and forgets the giver.
adjust_ownership_cash_credit_only(N, entity_from, entity_to, good) ==
    [N EXCEPT !.entityObjs[entity_to].cash_balance = @ + good.v]

\* Network.adjust_ownership, isinstance(good, (int, float))
adjust_ownership_cash(N, entity_from, entity_to, good) ==
    [N EXCEPT !.entityObjs[entity_from].cash_balance = @ - good.v,
              !.entityObjs[entity_to].cash_balance = @ + good.v]

\* Network.adjust_ownership
adjust_ownership(N, entity_from, entity_to, good) ==
    IF Raised(N) THEN N
    ELSE IF good.kind = "Asset"
    THEN adjust_ownership_asset(N, entity_from, entity_to, good)
    ELSE IF good.kind = "Partnership"
    THEN adjust_ownership_partnership(N, entity_from, entity_to, good)
    ELSE IF good.kind = "cash"
    THEN adjust_ownership_cash(N, entity_from, entity_to, good)
    ELSE N

\* The loop of Network.adjust_partner_basis over entity.partnerships[good]:
\* inside_basis += adjustment, where the adjustment is taken from the other
\* good.  The subtraction "good - inside_basis" of the last branch raises
\* TypeError when the other good is a Partnership.
AdjustList(N, entity, good, other_good) ==
    LET l == GetList(N, entity, good.v)
        Adjusted(partner_asset) ==
            LET adjustment ==
                    IF other_good.kind = "Asset"
                    THEN N.assetObjs[other_good.v].basis - partner_asset.inside_basis
                    ELSE other_good.v - partner_asset.inside_basis
            IN [partner_asset EXCEPT !.inside_basis = @ + adjustment]
    IN IF l = <<>> THEN N
       ELSE IF other_good.kind = "Partnership" THEN Raise(N, "TypeError")
       ELSE SetList(N, entity, good.v, [i \in 1..Len(l) |-> Adjusted(l[i])])

\* One of the two "if isinstance(good, Partnership)" blocks of
\* Network.adjust_partner_basis
AdjustSide(N, entity, good, other_good) ==
    IF Raised(N) \/ good.kind # "Partnership" THEN N
    ELSE add_partnership_upstream(
             remove_partnership_upstream(
                 AdjustList(N, entity, good, other_good), entity, good.v, 1),
             entity, good.v, 1)

\* Network.adjust_partner_basis
adjust_partner_basis(N, t) ==
    AdjustSide(AdjustSide(N, t.entity1, t.good1, t.good2),
               t.entity2, t.good2, t.good1)

LossThreshold == 250000

\* Network.has_substantial_built_in_loss
built_in_loss(N, good, entity) ==
    IF good.kind = "Asset" THEN N.assetObjs[good.v].basis - N.assetObjs[good.v].fmv
    ELSE IF good.kind = "Partnership" THEN
        LET l == GetList(N, entity, good.v)
        IN SeqSum([i \in 1..Len(l) |->
                      IF type_of_asset(N, l[i]) # "Annuity"
                      THEN l[i].inside_basis - fmv(N, l[i]) ELSE 0])
    ELSE 0

\* A faulty predicate that takes ">=" for ">".
has_substantial_built_in_loss_ge(N, good, entity) ==
    built_in_loss(N, good, entity) >= LossThreshold * Unit

has_substantial_built_in_loss(N, good, entity) ==
    built_in_loss(N, good, entity) > LossThreshold * Unit

\* ------------------------------------------------------------ Network: tax
\* A faulty sum that takes the edges the entity holds for the edges that
\* point at it.
partner_share_sum_held(N, entity) ==
    LET ks == Keys(N, entity)
    IN SeqSum([j \in 1..Len(ks) |-> N.partnershipObjs[ks[j]].share])

\* sum(p.share for e in entities.values() for p in e.partnerships
\*     if p.partner_name == entity.name)
partner_share_sum(N, entity) ==
    SeqSum([k \in 1..Len(N.entities) |->
        LET ks == Keys(N, N.entities[k].obj)
        IN SeqSum([j \in 1..Len(ks) |->
               IF PointsAt(N, ks[j], entity)
               THEN N.partnershipObjs[ks[j]].share ELSE 0])])

\* A faulty remaining share that leaves out what the partners hold.
remaining_share_whole(N, entity) == Remaining(0)

\* remaining_share = 1 - partner_share_sum
remaining_share(N, entity) == Remaining(partner_share_sum(N, entity))

\* A faulty record that takes "=" for "+=".
AddTax_overwriting(N, entity, tax_amount) ==
    LET n == N.entityObjs[entity].name
    IN IF Raised(N) THEN N
       ELSE IF n \notin DOMAIN N.tax_records THEN Raise(N, "KeyError")
       ELSE [N EXCEPT !.tax_records[n] = tax_amount]

\* self.tax_records[entity.name] += tax_amount
AddTax(N, entity, tax_amount) ==
    LET n == N.entityObjs[entity].name
    IN IF Raised(N) THEN N
       ELSE IF n \notin DOMAIN N.tax_records THEN Raise(N, "KeyError")
       ELSE [N EXCEPT !.tax_records[n] = @ + tax_amount]

\* A faulty gain that counts the Annuity items too.
ListGain_all(N, l) ==
    SeqSum([i \in 1..Len(l) |-> fmv(N, l[i])])
    - SeqSum([i \in 1..Len(l) |-> l[i].inside_basis])

\* sum(fmv) - sum(inside_basis) over the non-Annuity items of a list
ListGain(N, l) ==
    SeqSum([i \in 1..Len(l) |->
               IF type_of_asset(N, l[i]) # "Annuity" THEN fmv(N, l[i]) ELSE 0])
    - SeqSum([i \in 1..Len(l) |->
               IF type_of_asset(N, l[i]) # "Annuity" THEN l[i].inside_basis ELSE 0])

\* Network._calculate_partner_tax_asset
RECURSIVE calculate_partner_tax_asset(_, _, _, _)
RECURSIVE PartnerTaxAssetLoop(_, _, _, _, _, _, _)
PartnerTaxAssetLoop(N, entity, asset, d, k, j, i) ==
    IF Raised(N) \/ k > Len(N.entities) THEN N
    ELSE LET other == N.entities[k].obj
             ks == Keys(N, other)
         IN IF j > Len(ks) THEN PartnerTaxAssetLoop(N, entity, asset, d, k + 1, 1, 1)
            ELSE IF ~PointsAt(N, ks[j], entity)
            THEN PartnerTaxAssetLoop(N, entity, asset, d, k, j + 1, 1)
            ELSE LET l == GetList(N, other, ks[j])
                 IN IF i > Len(l) THEN PartnerTaxAssetLoop(N, entity, asset, d, k, j + 1, 1)
                    ELSE IF name(N, l[i]) # name(N, asset)
                    THEN PartnerTaxAssetLoop(N, entity, asset, d, k, j, i + 1)
                    ELSE LET tax_amount ==
                                 Mul(remaining_share(N, other),
                                     fmv(N, l[i]) - l[i].inside_basis)
                         IN PartnerTaxAssetLoop(
                                calculate_partner_tax_asset(
                                    AddTax(N, other, tax_amount), other, l[i], d + 1),
                                entity, asset, d, k, j, i + 1)

calculate_partner_tax_asset(N, entity, asset, d) ==
    IF Raised(N) THEN N
    ELSE IF d > RecursionLimit(N) THEN Raise(N, "RecursionError")
    ELSE PartnerTaxAssetLoop(N, entity, asset, d, 1, 1, 1)

\* Network._calculate_partner_tax_partnership
RECURSIVE calculate_partner_tax_partnership(_, _, _)
RECURSIVE PartnerTaxPartnershipLoop(_, _, _, _, _)
PartnerTaxPartnershipLoop(N, entity, d, k, j) ==
    IF Raised(N) \/ k > Len(N.entities) THEN N
    ELSE LET other == N.entities[k].obj
             ks == Keys(N, other)
         IN IF j > Len(ks) THEN PartnerTaxPartnershipLoop(N, entity, d, k + 1, 1)
            ELSE IF ~PointsAt(N, ks[j], entity)
            THEN PartnerTaxPartnershipLoop(N, entity, d, k, j + 1)
            ELSE LET tax_amount ==
                         Mul(remaining_share(N, other),
                             ListGain(N, GetList(N, other, ks[j])))
                 IN PartnerTaxPartnershipLoop(
                        calculate_partner_tax_partnership(
                            AddTax(N, other, tax_amount), other, d + 1),
                        entity, d, k, j + 1)

calculate_partner_tax_partnership(N, entity, d) ==
    IF Raised(N) THEN N
    ELSE IF d > RecursionLimit(N) THEN Raise(N, "RecursionError")
    ELSE PartnerTaxPartnershipLoop(N, entity, d, 1, 1)

\* A faulty determine_tax that taxes an Annuity as any other Asset.
determine_tax_annuity_too(N, entity_from, good) ==
    IF Raised(N) THEN N
    ELSE IF good.kind = "Asset" THEN
        LET tax_amount ==
                Mul(remaining_share(N, entity_from),
                    N.assetObjs[good.v].fmv - N.assetObjs[good.v].basis)
        IN calculate_partner_tax_asset(
               AddTax(N, entity_from, tax_amount),
               entity_from, AssetItem(good.v), 1)
    ELSE IF good.kind = "Partnership" THEN
        IF ~HasKey(N, entity_from, good.v) THEN Raise(N, "KeyError")
        ELSE
        LET tax_amount ==
                Mul(remaining_share(N, entity_from),
                    ListGain(N, GetList(N, entity_from, good.v)))
        IN calculate_partner_tax_partnership(
               AddTax(N, entity_from, tax_amount), entity_from, 1)
    ELSE N

\* Network.determine_tax
determine_tax(N, entity_from, good) ==
    IF Raised(N) THEN N
    ELSE IF good.kind = "Asset" THEN
        IF N.assetObjs[good.v].type_of_asset # "Annuity" THEN
            LET tax_amount ==
                    Mul(remaining_share(N, entity_from),
                        N.assetObjs[good.v].fmv - N.assetObjs[good.v].basis)
            IN calculate_partner_tax_asset(
                   AddTax(N, entity_from, tax_amount),
                   entity_from, AssetItem(good.v), 1)
        ELSE N
    ELSE IF good.kind = "Partnership" THEN
        IF ~HasKey(N, entity_from, good.v) THEN Raise(N, "KeyError")
        ELSE
        LET tax_amount ==
                Mul(remaining_share(N, entity_from),
                    ListGain(N, GetList(N, entity_from, good.v)))
        IN calculate_partner_tax_partnership(
               AddTax(N, entity_from, tax_amount), entity_from, 1)
    ELSE N

\* ------------------------------------------------------------ Network: transactions
\* A faulty step 1 that records the tax of the first side before it looks at
\* the second side.
Validate_interleaved(N, t) ==
    is_transaction_viable(
        determine_tax(is_transaction_viable(N, t.entity1, t.good1),
                      t.entity1, t.good1),
        t.entity2, t.good2)

\* Step 1 of Network.process_transaction
Validate(N, t) ==
    is_transaction_viable(
        is_transaction_viable(N, t.entity1, t.good1), t.entity2, t.good2)

\* A faulty step 2 that adjusts the basis under election754 alone.
AdjustBasisIfElected(N, t) ==
    IF Raised(N) THEN N
    ELSE IF t.election754 THEN adjust_partner_basis(N, t)
    ELSE N

\* Step 2
AdjustBasisIfNeeded(N, t) ==
    IF Raised(N) THEN N
    ELSE IF \/ t.election754
            \/ has_substantial_built_in_loss(N, t.good1, t.entity1)
            \/ has_substantial_built_in_loss(N, t.good2, t.entity2)
         THEN adjust_partner_basis(N, t)
         ELSE N

\* Step 3
DetermineTaxes(N, t) ==
    determine_tax(determine_tax(N, t.entity1, t.good1), t.entity2, t.good2)

\* Step 4
AdjustOwnerships(N, t) ==
    adjust_ownership(adjust_ownership(N, t.entity1, t.entity2, t.good1),
                     t.entity2, t.entity1, t.good2)

\* A faulty pipeline that moves the goods before it computes the taxes.
process_transaction_moving_first(N, t) ==
    DetermineTaxes(AdjustOwnerships(AdjustBasisIfNeeded(Validate(N, t), t), t), t)

\* Network.process_transaction
process_transaction(N, t) ==
    AdjustOwnerships(DetermineTaxes(AdjustBasisIfNeeded(Validate(N, t), t), t), t)

\* ------------------------------------------------------------ Network: observers
\* Network.tax_liability
tax_liability(N) ==
    LET ns == DOMAIN N.tax_records
        RECURSIVE S(_)
        S(r) == IF r = {} THEN 0
                ELSE LET n == CHOOSE x \in r : TRUE IN N.tax_records[n] + S(r \ {n})
    IN S(ns)

\* Network.cash_balance
cash_balance(N) ==
    SeqSum([k \in 1..Len(N.entities) |-> N.entityObjs[N.entities[k].obj].cash_balance])

\* A faulty fitness that adds the tax liability to the cash.
fitness_sum(N) == cash_balance(N) + tax_liability(N)

\* Network.fitness
fitness(N) == cash_balance(N) - tax_liability(N)

\* ------------------------------------------------------------ the calls
NoGood == [kind |-> "none", v |-> 0]

Call(op, outcome) ==
    [op |-> op, outcome |-> outcome, entity1 |-> 0, entity2 |-> 0,
     good1 |-> NoGood, good2 |-> NoGood, election754 |-> FALSE,
     result |-> 0, left |-> <<>>]

\* The keys of every entity's partnerships, in the order of the dict, as a
\* call that dies of its recursion leaves them: the exception goes up through
\* the recursion and the call, and nothing is written on its way.
KeysLeft(N) ==
    [e \in 1..Len(N.entityObjs) |->
        [i \in 1..Len(N.entityObjs[e].partnerships) |->
            N.entityObjs[e].partnerships[i].key]]

\* The state after a call that left the network N behind.
Becomes(N) ==
    /\ entities' = N.entities
    /\ assets' = N.assets
    /\ tax_records' = N.tax_records
    /\ entityObjs' = N.entityObjs
    /\ assetObjs' = N.assetObjs
    /\ partnershipObjs' = N.partnershipObjs

\* The state after the construction call op that left N behind.
Built(op, N) ==
    /\ Becomes(N)
    /\ last' = Call(op, IF Raised(N) THEN N.exc ELSE "ok")
    /\ UNCHANGED <<ntx, before>>

\* The run goes on after a call that returned; it ends with a call that
\* raised or never returned.
Running == last.outcome = "ok"

EntityIds == 1..Len(entityObjs)
AssetIds == 1..Len(assetObjs)
PartnershipIds == 1..Len(partnershipObjs)

\* the names of the entities that hold an interest, direct or not, in the
\* entity named n (n is one of them)
RECURSIVE Above(_, _)
Above(n, fuel) ==
    IF fuel = 0 THEN {n}
    ELSE {n} \cup UNION { Above(entityObjs[e].name, fuel - 1) :
                 e \in {e \in EntityIds :
                          \E i \in DOMAIN entityObjs[e].partnerships :
                             partnershipObjs[entityObjs[e].partnerships[i].key].partner_name = n} }

Init ==
    /\ entities = EmptyNetwork.entities
    /\ assets = EmptyNetwork.assets
    /\ tax_records = EmptyNetwork.tax_records
    /\ entityObjs = EmptyNetwork.entityObjs
    /\ assetObjs = EmptyNetwork.assetObjs
    /\ partnershipObjs = EmptyNetwork.partnershipObjs
    /\ ntx = 0
    /\ last = Call("init", "ok")
    /\ before = EmptyNetwork

\* Network.add_entity.  The names being interchangeable, new ones are taken in
\* the order of NameOrder; the entities are registered before anything that
\* refers to them.
AddEntity(n, c) ==
    /\ Running
    /\ Len(assetObjs) = 0 /\ Len(partnershipObjs) = 0 /\ ntx = 0
    /\ Len(entities) < Len(NameOrder)
    /\ n = NameOrder[Len(entities) + 1]
    /\ Built("add_entity", add_entity(Net, n, c))

\* Network.add_asset, of an asset with a new name, while the network is built
AddAsset(owner, in) ==
    /\ Running
    /\ ntx = 0
    /\ ~DictHas(assets, in.name)
    /\ Built("add_asset", add_asset(Net, owner, in.name, in.type_of_asset,
                                    in.basis, in.has_fmv, in.fmv))

\* Network.add_partnership, while the network is built.  The caller keeps the
\* partnership graph acyclic: the partner holds no interest in the new holder.
AddPartnership(entity1, partner_entity, s) ==
    /\ Running
    /\ ntx = 0
    /\ entityObjs[partner_entity].name \notin Above(entityObjs[entity1].name,
                                                   Len(entityObjs))
    /\ Built("add_partnership", add_partnership(Net, entity1, partner_entity, s))

\* The list objects two entities share when the call ends inside a transfer:
\* the giver's entry shows the receiver's list.
Settle(N) ==
    IF N.alias = NoAlias THEN N
    ELSE [N EXCEPT !.entityObjs[N.alias.from].partnerships[
                        KeyIndex(N.entityObjs[N.alias.from].partnerships,
                                 N.alias.key, 1)].assets =
                       GetList(N, N.alias.from, N.alias.key),
                   !.alias = NoAlias]

\* what a Transaction can name as a good
Goods(amounts) ==
    {AssetGood(a) : a \in AssetIds} \cup {PartnershipGood(p) : p \in PartnershipIds}
        \cup {CashGood(x) : x \in amounts}

\* Network.process_transaction.  A call that fails validation leaves "rejected"
\* behind; one that raises later leaves what it had done by then; one that
\* never returns (or dies of it) ends the run.  election754 is read only when
\* a Partnership changes hands.  last keeps the arguments of a call that
\* passed validation, and the keys left by one that died of its recursion.
ProcessTransaction(e1, e2, g1, g2, el) ==
    /\ Running
    /\ el => "Partnership" \in {g1.kind, g2.kind}
    /\ before' = Net
    /\ LET t == Transaction(e1, e2, g1, g2, el)
           ran == [Call("process_transaction", "ok") EXCEPT
                      !.entity1 = e1, !.entity2 = e2, !.good1 = g1, !.good2 = g2,
                      !.election754 = el]
           Ends(rejected, N) ==
               IF rejected
               THEN /\ Becomes(N)
                    /\ last' = Call("process_transaction", "rejected")
                    /\ UNCHANGED ntx
               ELSE /\ ntx' = ntx + 1
                    /\ IF N.exc \in {"RecursionError", "MemoryError"}
                       THEN /\ UNCHANGED <<entities, assets, tax_records, entityObjs,
                                           assetObjs, partnershipObjs>>
                            /\ last' = [ran EXCEPT !.outcome = "diverged",
                                                   !.left = KeysLeft(N)]
                       ELSE /\ Becomes(Settle(N))
                            /\ last' = [ran EXCEPT !.outcome =
                                            IF Raised(N) THEN "raised" ELSE "ok"]
       IN Ends(Raised(Validate(Net, t)), process_transaction(Net, t))

\* ------------------------------------------------------------ specifications
\* Any acyclic network of up to MaxEntities entities, then transactions.
Next ==
    \/ /\ Len(entityObjs) < MaxEntities
       /\ \E n \in Names : \E c \in InitialCash(n) : AddEntity(n, c)
    \/ /\ Len(assetObjs) < MaxAssets
       /\ \E owner \in EntityIds, in \in AssetInputs : AddAsset(owner, in)
    \/ /\ Len(partnershipObjs) < MaxPartnerships
       /\ \E e1 \in EntityIds, e2 \in EntityIds, s \in Shares :
             AddPartnership(e1, e2, s)
    \/ /\ ntx < MaxTransactions
       /\ \E e1 \in EntityIds, e2 \in EntityIds,
             g1 \in Goods(CashAmounts), g2 \in Goods(CashAmounts), el \in BOOLEAN :
             ProcessTransaction(e1, e2, g1, g2, el)

Spec == Init /\ [][Next]_vars

\* One asset under one edge of either share, and a few transactions.
NextTrade ==
    \/ /\ Len(entityObjs) < MaxEntities
       /\ \E n \in Names : \E c \in InitialCash(n) : AddEntity(n, c)
    \/ /\ Len(assetObjs) < TradeAssets
       /\ \E owner \in EntityIds, in \in AssetInputs : AddAsset(owner, in)
    \/ /\ Len(partnershipObjs) < TradePartnerships
       /\ \E e1 \in EntityIds, e2 \in EntityIds, s \in TradeShares :
             AddPartnership(e1, e2, s)
    \/ /\ ntx < TradeTransactions
       /\ \E e1 \in EntityIds, e2 \in EntityIds,
             g1 \in Goods(CashAmounts), g2 \in Goods(CashAmounts), el \in BOOLEAN :
             ProcessTransaction(e1, e2, g1, g2, el)

SpecTrade == Init /\ [][NextTrade]_vars

\* A network with assets that carry a built-in loss, then one transaction.
NextLoss ==
    \/ /\ Len(entityObjs) < MaxEntities
       /\ \E n \in Names : \E c \in InitialCash(n) : AddEntity(n, c)
    \/ /\ Len(assetObjs) < LossAssets
       /\ \E owner \in EntityIds, in \in LossAssetInputs : AddAsset(owner, in)
    \/ /\ Len(partnershipObjs) < LossPartnerships
       /\ \E e1 \in EntityIds, e2 \in EntityIds, s \in LossShares :
             AddPartnership(e1, e2, s)
    \/ /\ ntx < LossTransactions
       /\ \E e1 \in EntityIds, e2 \in EntityIds,
             g1 \in Goods(CashAmounts), g2 \in Goods(CashAmounts), el \in BOOLEAN :
             ProcessTransaction(e1, e2, g1, g2, el)

SpecLoss == Init /\ [][NextLoss]_vars

\* The state after the call op that left N behind, with the network the call
\* found kept in before.
Opened(op, N) ==
    /\ Becomes(N)
    /\ last' = Call(op, IF Raised(N) THEN N.exc ELSE "ok")
    /\ before' = Net
    /\ UNCHANGED ntx

\* Network.add_entity, at any time and with any name, used before or not
RegisterEntity(n, c) ==
    /\ Running
    /\ Opened("add_entity", add_entity(Net, n, c))

\* Entity(name, cash_balance), called by the script itself: an Entity the
\* network has not registered
ConstructEntity(n, c) ==
    /\ Running
    /\ Opened("Entity", [Net EXCEPT !.entityObjs = Append(@, Entity(n, c))])

\* Network.add_asset, of an asset with a new name, for any Entity object
OpenAsset(owner, in) ==
    /\ Running
    /\ ~DictHas(assets, in.name)
    /\ Opened("add_asset", add_asset(Net, owner, in.name, in.type_of_asset,
                                     in.basis, in.has_fmv, in.fmv))

\* Network.add_partnership between any two Entity objects; the caller keeps
\* the graph of names acyclic
OpenPartnership(entity1, partner_entity, s) ==
    /\ Running
    /\ entityObjs[partner_entity].name \notin Above(entityObjs[entity1].name,
                                                   Len(entityObjs))
    /\ Opened("add_partnership", add_partnership(Net, entity1, partner_entity, s))

\* Network.tax_liability(), cash_balance() or fitness(), as the script calls
\* them between the transactions
Observe(f) ==
    /\ Running
    /\ last.op \notin {"tax_liability", "cash_balance", "fitness"}
    /\ Becomes(Net)
    /\ last' = [Call(f, "ok") EXCEPT !.result =
                   CASE f = "tax_liability" -> tax_liability(Net)
                     [] f = "cash_balance" -> cash_balance(Net)
                     [] f = "fitness" -> fitness(Net)]
    /\ before' = Net
    /\ UNCHANGED ntx

\* Entity objects registered under any name or not at all, assets and edges
\* added before and after a transaction, and the observers.
NextOpen ==
    \/ /\ Len(entityObjs) < OpenEntities
       /\ \E n \in OpenNames, c \in OpenCash : RegisterEntity(n, c)
    \/ /\ Len(entityObjs) < OpenEntities
       /\ \E n \in OpenNames : ConstructEntity(n, 1000 * Unit)
    \/ /\ Len(assetObjs) < OpenAssets
       /\ \E owner \in EntityIds, in \in AssetInputs : OpenAsset(owner, in)
    \/ /\ Len(partnershipObjs) < OpenPartnerships
       /\ \E e1 \in EntityIds, e2 \in EntityIds, s \in TradeShares :
             OpenPartnership(e1, e2, s)
    \/ /\ ntx < OpenTransactions
       /\ \E e1 \in EntityIds, e2 \in EntityIds,
             g1 \in Goods(CashAmounts), g2 \in Goods(CashAmounts) :
             ProcessTransaction(e1, e2, g1, g2, FALSE)
    \/ \E f \in {"tax_liability", "cash_balance", "fitness"} : Observe(f)

SpecOpen == Init /\ [][NextOpen]_vars

\* The state after a direct call of the method op with the arguments kept in
\* last: the network the call found is kept in before.
Called(op, e1, e2, g1, g2, el, N) ==
    /\ before' = Net
    /\ UNCHANGED ntx
    /\ IF N.exc \in {"RecursionError", "MemoryError"}
       THEN /\ UNCHANGED <<entities, assets, tax_records, entityObjs,
                           assetObjs, partnershipObjs>>
            /\ last' = [Call(op, "diverged") EXCEPT
                           !.entity1 = e1, !.entity2 = e2, !.good1 = g1,
                           !.good2 = g2, !.election754 = el,
                           !.left = KeysLeft(N)]
       ELSE /\ Becomes(Settle(N))
            /\ last' = [Call(op, IF Raised(N) THEN "raised" ELSE "ok") EXCEPT
                           !.entity1 = e1, !.entity2 = e2, !.good1 = g1,
                           !.good2 = g2, !.election754 = el]

\* the network is still being built: no method has been called on it
Building ==
    /\ Running
    /\ ntx = 0
    /\ last.op \in {"init", "add_entity", "add_asset", "add_partnership"}

\* Network.add_entity, of the next name of DeepNameOrder, before anything else
DeepEntity(c) ==
    /\ Building
    /\ Len(assetObjs) = 0 /\ Len(partnershipObjs) = 0
    /\ Len(entities) < Len(DeepNameOrder)
    /\ Built("add_entity", add_entity(Net, DeepNameOrder[Len(entities) + 1], c))

\* Network.add_asset, as the script does it: after the entities and before
\* the partnerships
DeepAsset(owner, in) ==
    /\ Building
    /\ Len(partnershipObjs) = 0
    /\ ~DictHas(assets, in.name)
    /\ Built("add_asset", add_asset(Net, owner, in.name, in.type_of_asset,
                                    in.basis, in.has_fmv, in.fmv))

\* Network.add_partnership, holder by holder in the order of registration and
\* each holder registered after its partner: the graph is acyclic and the
\* wholesale rebuild, which takes the entities in that order, leaves every
\* list complete
DeepPartnership(entity1, partner_entity, s) ==
    /\ Building
    /\ partner_entity < entity1
    /\ \A e \in EntityIds : entityObjs[e].partnerships # <<>> => e <= entity1
    /\ Built("add_partnership", add_partnership(Net, entity1, partner_entity, s))

\* Network.process_transaction, the sale of a Partnership for cash
DeepSale(e1, e2, p, x) ==
    /\ Building
    /\ ProcessTransaction(e1, e2, PartnershipGood(p), CashGood(x), FALSE)

\* Network.process_transaction, of Assets and cash
DeepTrade(e1, e2, g1, g2) ==
    /\ Building
    /\ g1.kind # "Partnership" /\ g2.kind # "Partnership"
    /\ ProcessTransaction(e1, e2, g1, g2, FALSE)

\* Network.add_asset_upstream(entity, good), good an Asset of the entity
CallAddAssetUpstream(entity, a) ==
    /\ Building
    /\ Contains(entityObjs[entity].direct_assets, a)
    /\ Called("add_asset_upstream", entity, 0, AssetGood(a), NoGood, FALSE,
              add_asset_upstream(Net, entity, AssetItem(a), 1))

\* Network.remove_asset_upstream(entity, good), good an Asset of the entity
CallRemoveAssetUpstream(entity, a) ==
    /\ Building
    /\ Contains(entityObjs[entity].direct_assets, a)
    /\ Called("remove_asset_upstream", entity, 0, AssetGood(a), NoGood, FALSE,
              remove_asset_upstream(Net, entity, AssetItem(a), 1))

\* Network.add_partnership_upstream(entity, partnership_of_interest), for an
\* edge the entity holds
CallAddPartnershipUpstream(entity, p) ==
    /\ Building
    /\ HasKey(Net, entity, p)
    /\ Called("add_partnership_upstream", entity, 0, PartnershipGood(p), NoGood,
              FALSE, add_partnership_upstream(Net, entity, p, 1))

\* Network.remove_partnership_upstream(entity, partnership_of_interest), for
\* an edge the entity holds
CallRemovePartnershipUpstream(entity, p) ==
    /\ Building
    /\ HasKey(Net, entity, p)
    /\ Called("remove_partnership_upstream", entity, 0, PartnershipGood(p),
              NoGood, FALSE, remove_partnership_upstream(Net, entity, p, 1))

\* Network.adjust_partner_basis(transaction), for a transaction that gives an
\* edge entity1 holds for an Asset of entity2 or for cash (of the entity
\* registered next: the method does not look at who pays)
CallAdjustPartnerBasis(e1, e2, p, g2) ==
    /\ Building
    /\ HasKey(Net, e1, p)
    /\ g2.kind = "Asset" => Contains(entityObjs[e2].direct_assets, g2.v)
    /\ g2.kind = "cash" => e2 = (e1 % Len(entityObjs)) + 1
    /\ g2.kind # "Partnership"
    /\ Called("adjust_partner_basis", e1, e2, PartnershipGood(p), g2, TRUE,
              adjust_partner_basis(
                  Net, Transaction(e1, e2, PartnershipGood(p), g2, TRUE)))

\* Network.determine_tax(entity_from, good), for a good the entity has
CallDetermineTax(entity, good) ==
    /\ Building
    /\ ~is_transaction_viable_raises(Net, entity, good)
    /\ Called("determine_tax", entity, 0, good, NoGood, FALSE,
              determine_tax(Net, entity, good))

\* Chains of entities built as the script builds them, then one call: a sale
\* or one of the methods a sale is made of.
NextDeep ==
    \/ /\ Len(entityObjs) < DeepEntities
       /\ DeepEntity(1000 * Unit)
    \/ /\ Len(assetObjs) < DeepAssets
       /\ \E owner \in EntityIds, in \in DeepAssetInputs : DeepAsset(owner, in)
    \/ /\ Len(partnershipObjs) < DeepPartnerships
       /\ \E e1 \in EntityIds, e2 \in EntityIds, s \in Shares :
             DeepPartnership(e1, e2, s)
    \/ /\ ntx < DeepTransactions
       /\ \E e1 \in EntityIds, e2 \in EntityIds, p \in PartnershipIds :
             DeepSale(e1, e2, p, 200 * Unit)
    \/ /\ ntx < DeepTransactions
       /\ \E e1 \in EntityIds, e2 \in EntityIds,
             g1 \in Goods({200 * Unit}), g2 \in Goods({200 * Unit}) :
             DeepTrade(e1, e2, g1, g2)
    \/ \E e \in EntityIds, a \in AssetIds : CallAddAssetUpstream(e, a)
    \/ \E e \in EntityIds, a \in AssetIds : CallRemoveAssetUpstream(e, a)
    \/ \E e \in EntityIds, p \in PartnershipIds : CallAddPartnershipUpstream(e, p)
    \/ \E e \in EntityIds, p \in PartnershipIds : CallRemovePartnershipUpstream(e, p)
    \/ \E e1 \in EntityIds, e2 \in EntityIds, p \in PartnershipIds,
          g2 \in Goods({200 * Unit}) : CallAdjustPartnerBasis(e1, e2, p, g2)
    \/ \E e \in EntityIds, g \in Goods({}) : CallDetermineTax(e, g)

SpecDeep == Init /\ [][NextDeep]_vars

\* Network.process_transaction, the sale of a Partnership for cash, with or
\* without election754
RebuildSale(e1, e2, p, x, el) ==
    /\ Building
    /\ ProcessTransaction(e1, e2, PartnershipGood(p), CashGood(x), el)

\* Network.add_asset, once a transaction has returned
LaterAsset(owner, in) ==
    /\ last.op = "process_transaction"
    /\ OpenAsset(owner, in)

\* Network.add_partnership, once a transaction has returned
LaterPartnership(entity1, partner_entity, s) ==
    /\ last.op = "process_transaction"
    /\ OpenPartnership(entity1, partner_entity, s)

\* Network.update_initial_partnership_assets(), called again right after the
\* call that add_asset or add_partnership made
CallUpdateInitial ==
    /\ Running
    /\ last.op \in {"add_asset", "add_partnership"}
    /\ Called("update_initial_partnership_assets", 0, 0, NoGood, NoGood, FALSE,
              update_initial_partnership_assets(Net))

\* Any acyclic network, the entities registered in any order with respect to
\* the edges; then the rebuild once more, or the sale of a Partnership and
\* one more asset or edge, and the rebuild once more.
NextRebuild ==
    \/ /\ Len(entityObjs) < RebuildEntities
       /\ Building
       /\ \E n \in Names : \E c \in InitialCash(n) : AddEntity(n, c)
    \/ /\ Len(assetObjs) < RebuildAssets
       /\ Building
       /\ \E owner \in EntityIds, in \in AssetInputs : AddAsset(owner, in)
    \/ /\ Len(partnershipObjs) < RebuildPartnerships
       /\ Building
       /\ \E e1 \in EntityIds, e2 \in EntityIds, s \in Shares :
             AddPartnership(e1, e2, s)
    \/ /\ ntx < RebuildTransactions
       /\ \E e1 \in EntityIds, e2 \in EntityIds, p \in PartnershipIds,
             el \in BOOLEAN : RebuildSale(e1, e2, p, 200 * Unit, el)
    \/ /\ Len(assetObjs) < RebuildAssets
       /\ \E owner \in EntityIds, in \in AssetInputs : LaterAsset(owner, in)
    \/ /\ Len(partnershipObjs) < RebuildPartnerships
       /\ \E e1 \in EntityIds, e2 \in EntityIds, s \in Shares :
             LaterPartnership(e1, e2, s)
    \/ CallUpdateInitial

SpecRebuild == Init /\ [][NextRebuild]_vars

\* ------------------------------------------------------------ reading a state
\* how often x occurs in the list l
Count(l, x) == Cardinality({i \in DOMAIN l : l[i] = x})

\* two lists with the same items, each as often
SameItems(l, m) ==
    /\ Len(l) = Len(m)
    /\ \A x \in Range(l) \cup Range(m) : Count(l, x) = Count(m, x)

\* the edges (keys of partnerships) an entity of N holds
KeySet(N, e) ==
    {N.entityObjs[e].partnerships[i].key : i \in DOMAIN N.entityObjs[e].partnerships}

\* the last call is a process_transaction that returned
Transacted == last.op = "process_transaction" /\ last.outcome = "ok"

\* what the last transaction added to the tax record of entity e
TaxAdded(e) ==
    tax_records[entityObjs[e].name] - before.tax_records[entityObjs[e].name]

\* ------------------------------------------------------------ C1
\* C1: a process_transaction whose validation fails for either side leaves the
\* whole network as it found it: the direct assets, the edges and their
\* derived lists with every inside_basis, every cash balance, every basis and
\* every tax record.
C1_RejectedChangesNothing ==
    (last.op = "process_transaction" /\ last.outcome = "rejected") => Net = before

\* a transaction was rejected in a network with an asset, an edge and a proxy
C1_Witness ==
    /\ last.op = "process_transaction" /\ last.outcome = "rejected"
    /\ Len(assetObjs) > 0
    /\ \E e \in EntityIds : FlatPartnerships(Net, e) # <<>>

\* ------------------------------------------------------------ C2
\* C2: is_transaction_viable(entity, good) raises exactly when good is an Asset
\* that is not in entity.direct_assets, a Partnership that is not a key of
\* entity.partnerships, or a cash amount strictly greater than
\* entity.cash_balance; otherwise (a cash amount equal to the balance
\* included) it returns and the state is what it was.
C2_ViableExactly ==
    \A e \in EntityIds :
        \A g \in Goods(CashAmounts \cup {entityObjs[e].cash_balance,
                                        entityObjs[e].cash_balance + 1}) :
            LET fails ==
                    \/ g.kind = "Asset" /\ g.v \notin Range(entityObjs[e].direct_assets)
                    \/ g.kind = "Partnership" /\ g.v \notin KeySet(Net, e)
                    \/ g.kind = "cash" /\ g.v > entityObjs[e].cash_balance
            IN is_transaction_viable(Net, e, g) =
                   IF fails THEN Raise(Net, "ValueError") ELSE Net

\* a transaction went through in which an entity paid its whole balance
C2_Witness ==
    /\ Transacted
    /\ last.good2.kind = "cash" /\ last.good2.v > 0
    /\ last.good2.v = before.entityObjs[last.entity2].cash_balance

\* ------------------------------------------------------------ C3
\* C3: in every state, every Asset made by add_asset is in the direct_assets
\* of exactly one Entity, and there exactly once.
C3_ExclusiveOwnership ==
    \A a \in AssetIds :
        SeqSum([e \in EntityIds |-> Count(entityObjs[e].direct_assets, a)]) = 1

\* an asset went from one entity to another
C3_Witness ==
    /\ Transacted
    /\ last.good1.kind = "Asset"
    /\ last.entity1 # last.entity2
    /\ last.good1.v \in Range(entityObjs[last.entity2].direct_assets)

\* ------------------------------------------------------------ C4, C5
\* the entity an edge of N points at
Partner(N, p) == DictGet(N.entities, N.partnershipObjs[p].partner_name)

\* what an entity of N has to show to the holders of its edges: its direct
\* assets and then its derived lists, flattened
Holdings(N, q) ==
    [i \in 1..Len(N.entityObjs[q].direct_assets) |->
        AssetItem(N.entityObjs[q].direct_assets[i])] \o FlatPartnerships(N, q)

\* a proxy without its inside_basis: what it stands for and with which shares
Link(x) == [root |-> x.root, shares |-> x.shares]

\* the derived list of edge p held by e has one proxy of share p.share for
\* each of the partner's holdings and nothing else
Complete(N, e, p) ==
    LET l == GetList(N, e, p)
        h == Holdings(N, Partner(N, p))
    IN SameItems([i \in 1..Len(l) |-> Link(l[i])],
                 [i \in 1..Len(h) |->
                     Link(PartnershipAsset(h[i], N.partnershipObjs[p].share, 0))])

\* the same, and every proxy has the inside_basis of the original times the share
Mirrors(N, e, p) ==
    LET h == Holdings(N, Partner(N, p))
        s == N.partnershipObjs[p].share
    IN SameItems(GetList(N, e, p),
                 [i \in 1..Len(h) |->
                     PartnershipAsset(h[i], s, scaled_basis(N, h[i], s))])

AllComplete(N) ==
    \A e \in 1..Len(N.entityObjs) : \A p \in KeySet(N, e) : Complete(N, e, p)

\* C4: after a process_transaction that returned and moved an Asset, every
\* derived list holds exactly one proxy, of the edge's share, for each of the
\* partner's direct assets and derived proxies, and nothing else.  Stated
\* for the plainest transfer: one entity sells an Asset to another for cash,
\* in a network whose lists were complete.
C4_PropagationComplete ==
    ( /\ Transacted
      /\ last.entity1 # last.entity2
      /\ last.good1.kind = "Asset" /\ last.good2.kind = "cash"
      /\ AllComplete(before) )
    => AllComplete(Net)

\* C5: after an add_asset or add_partnership that returned, every derived
\* list mirrors the partner's direct assets and derived proxies as they stand,
\* each proxy with the edge's share and with inside_basis = (basis or
\* inside_basis of the original) * share, at every depth and for every order
\* of registration.
C5_ConstructionMirror ==
    (last.op \in {"add_asset", "add_partnership"} /\ last.outcome = "ok")
    => \A e \in EntityIds : \A p \in KeySet(Net, e) : Mirrors(Net, e, p)

\* ------------------------------------------------------------ C6
\* the last transaction: seller gave the Asset a and got cash for it
Sale(seller, a) ==
    /\ Transacted
    /\ \/ last.entity1 = seller /\ last.good1 = AssetGood(a) /\ last.good2.kind = "cash"
       \/ last.entity2 = seller /\ last.good2 = AssetGood(a) /\ last.good1.kind = "cash"

\* the gain on Asset a as the last transaction found it
Gain(a) == before.assetObjs[a].fmv - before.assetObjs[a].basis

\* in N, holder holds one edge, p, which points at partner; it is the only
\* edge that points at partner, and nothing points at holder
TwoLayers(N, holder, p, partner) ==
    /\ KeySet(N, holder) = {p}
    /\ \A e \in 1..Len(N.entityObjs) : \A q \in KeySet(N, e) :
          /\ ~PointsAt(N, q, holder)
          /\ PointsAt(N, q, partner) <=> (e = holder /\ q = p)

\* the shares of the gain that C6 names
SplitsGain(holder, p, partner, a) ==
    /\ TaxAdded(partner) =
           Mul(Remaining(before.partnershipObjs[p].share), Gain(a))
    /\ TaxAdded(holder) = Mul(before.partnershipObjs[p].share, Gain(a))
    /\ SeqSum([e \in EntityIds |-> TaxAdded(e)]) = Gain(a)

\* C6 as stated: when A holds a single edge of share s pointing at B, nothing
\* points at A, and B sells a non-Annuity Asset with gain g, the transaction
\* adds (1 - s) g to tax_records[B] and s g to tax_records[A], g in all.
C6_NoDoubleCountingAsStated ==
    \A holder \in EntityIds, partner \in EntityIds,
       p \in PartnershipIds, a \in AssetIds :
        ( /\ Sale(partner, a)
          /\ before.assetObjs[a].type_of_asset # "Annuity"
          /\ TwoLayers(before, holder, p, partner) )
        => SplitsGain(holder, p, partner, a)

\* A's derived list holds one proxy of a, with the inside_basis it was built
\* with: share * basis
ProxyAsBuilt(N, holder, p, a) ==
    SelectSeq(GetList(N, holder, p), LAMBDA x : x.root = a) =
        << PartnershipAsset(AssetItem(a), N.partnershipObjs[p].share,
                            Mul(N.partnershipObjs[p].share, N.assetObjs[a].basis)) >>

\* C6, amended: the same, provided A's proxy of the Asset still has the
\* inside_basis s * basis (no basis adjustment has replaced it).
C6_NoDoubleCounting ==
    \A holder \in EntityIds, partner \in EntityIds,
       p \in PartnershipIds, a \in AssetIds :
        ( /\ Sale(partner, a)
          /\ before.assetObjs[a].type_of_asset # "Annuity"
          /\ TwoLayers(before, holder, p, partner)
          /\ ProxyAsBuilt(before, holder, p, a) )
        => SplitsGain(holder, p, partner, a)

\* such a sale was made, under an edge of a share other than one half, with a
\* gain to split
C6_Witness ==
    \E holder \in EntityIds, partner \in EntityIds,
       p \in PartnershipIds, a \in AssetIds :
        /\ Sale(partner, a)
        /\ before.assetObjs[a].type_of_asset # "Annuity"
        /\ TwoLayers(before, holder, p, partner)
        /\ ProxyAsBuilt(before, holder, p, a)
        /\ 2 * before.partnershipObjs[p].share # ShareDen
        /\ Gain(a) > 0
        /\ TaxAdded(holder) > 0 /\ TaxAdded(partner) > TaxAdded(holder)

\* ------------------------------------------------------------ C7, C8
\* The scenario: a (cash 1000) owned Asset h (basis 120, fmv 200), b held a
\* 50% edge pointing at a, the only edge of the network, c had 200 or more,
\* and the first transaction was: a sells h to c for 200 cash.
Scenario(a, b, c, h) ==
    /\ ntx = 1
    /\ Sale(a, h)
    /\ {last.entity1, last.entity2} = {a, c}
    /\ {last.good1, last.good2} = {AssetGood(h), CashGood(200 * Unit)}
    /\ a # b /\ b # c /\ a # c
    /\ before.entityObjs[a].cash_balance = 1000 * Unit
    /\ before.entityObjs[c].cash_balance >= 200 * Unit
    /\ before.entityObjs[a].direct_assets = <<h>>
    /\ before.assetObjs[h].basis = 120 * Unit
    /\ before.assetObjs[h].fmv = 200 * Unit
    /\ before.assetObjs[h].type_of_asset # "Annuity"
    /\ \E p \in PartnershipIds :
          /\ TwoLayers(before, b, p, a)
          /\ 2 * before.partnershipObjs[p].share = ShareDen
    /\ KeySet(before, a) = {} /\ KeySet(before, c) = {}

\* C7 as stated: after the scenario tax_records[B] = 0.5 * (100 - 60) = 20.
C7_HolderTaxAsStated ==
    \A a \in EntityIds, b \in EntityIds, c \in EntityIds, h \in AssetIds :
        Scenario(a, b, c, h) => tax_records[entityObjs[b].name] = 20 * Unit

\* C7, amended: after the scenario tax_records[B] = 1 * (100 - 60) = 40: B's
\* own remaining share, 1, of the gain on its proxy.
C7_HolderTax ==
    \A a \in EntityIds, b \in EntityIds, c \in EntityIds, h \in AssetIds :
        Scenario(a, b, c, h) => tax_records[entityObjs[b].name] = 40 * Unit

\* the scenario was played and B was taxed
C7_Witness ==
    \E a \in EntityIds, b \in EntityIds, c \in EntityIds, h \in AssetIds :
        Scenario(a, b, c, h) /\ tax_records[entityObjs[b].name] > 0

\* C8: after the scenario A.cash_balance = 1200, C.cash_balance is 200 lower,
\* H.basis = 200, H is in C.direct_assets and not in A.direct_assets, and
\* tax_records[A] = 0.5 * (200 - 120) = 40.
C8_ScenarioOutcome ==
    \A a \in EntityIds, b \in EntityIds, c \in EntityIds, h \in AssetIds :
        Scenario(a, b, c, h) =>
            /\ entityObjs[a].cash_balance = 1200 * Unit
            /\ entityObjs[c].cash_balance =
                   before.entityObjs[c].cash_balance - 200 * Unit
            /\ assetObjs[h].basis = 200 * Unit
            /\ h \in Range(entityObjs[c].direct_assets)
            /\ h \notin Range(entityObjs[a].direct_assets)
            /\ tax_records[entityObjs[a].name] = 40 * Unit

\* the scenario was played and H changed hands
C8_Witness ==
    \E a \in EntityIds, b \in EntityIds, c \in EntityIds, h \in AssetIds :
        Scenario(a, b, c, h) /\ entityObjs[c].direct_assets = <<h>>

\* ------------------------------------------------------------ C9
\* C9: in a network without any Partnership edge, when a seller transfers a
\* non-Annuity Asset for cash, tax_records[seller] grows by fmv - basis (the
\* basis before the transfer) and no other tax record changes.
C9_IsolatedSale ==
    \A seller \in EntityIds, a \in AssetIds :
        ( /\ Sale(seller, a)
          /\ before.assetObjs[a].type_of_asset # "Annuity"
          /\ \A e \in EntityIds : KeySet(before, e) = {} )
        => /\ TaxAdded(seller) = Gain(a)
           /\ \A e \in EntityIds \ {seller} : TaxAdded(e) = 0

\* an isolated sale at a gain, by a seller with another entity to compare
C9_Witness ==
    \E seller \in EntityIds, a \in AssetIds :
        /\ Sale(seller, a)
        /\ before.assetObjs[a].type_of_asset # "Annuity"
        /\ \A e \in EntityIds : KeySet(before, e) = {}
        /\ Gain(a) > 0
        /\ last.entity1 # last.entity2

\* ------------------------------------------------------------ C10
\* in the last transaction F gave the cash amount X to T and T gave no cash
GaveCash(F, T, X) ==
    /\ Transacted
    /\ \/ /\ last.entity1 = F /\ last.entity2 = T
          /\ last.good1 = CashGood(X) /\ last.good2.kind # "cash"
       \/ /\ last.entity2 = F /\ last.entity1 = T
          /\ last.good2 = CashGood(X) /\ last.good1.kind # "cash"

\* C10: when F gives the cash amount X to another entity T, and T gives
\* nothing that moves cash, F.cash_balance falls by X, T.cash_balance grows by
\* X, no other balance changes and cash_balance() of the network is the same;
\* when F is T, every balance is the same.
C10_CashConservation ==
    \A F \in EntityIds, T \in EntityIds, X \in CashAmounts :
        GaveCash(F, T, X) =>
            /\ F # T =>
                 /\ entityObjs[F].cash_balance = before.entityObjs[F].cash_balance - X
                 /\ entityObjs[T].cash_balance = before.entityObjs[T].cash_balance + X
            /\ \A e \in EntityIds :
                  (F = T \/ e \notin {F, T}) =>
                      entityObjs[e].cash_balance = before.entityObjs[e].cash_balance
            /\ cash_balance(Net) = cash_balance(before)

\* cash went from one entity to another while a third looked on
C10_Witness ==
    \E F \in EntityIds, T \in EntityIds, X \in CashAmounts :
        /\ GaveCash(F, T, X)
        /\ F # T /\ X > 0
        /\ Len(entityObjs) > 2

\* ------------------------------------------------------------ C11
\* every PartnershipAsset in some derived list
AllProxies == UNION { Range(FlatPartnerships(Net, e)) : e \in EntityIds }

\* the product of the shares s[1..k], as a numerator over ShareDen^k
RECURSIVE Product(_, _)
Product(s, k) == IF k = 0 THEN 1 ELSE s[k] * Product(s, k - 1)

\* C11 as stated: every PartnershipAsset P, proxies of proxies included, has
\* P.fmv = P.share * (fmv of the base Asset that original leads to).
C11_DerivedFmvAsStated ==
    \A P \in AllProxies :
        fmv(Net, P) * ShareDen = share(P) * assetObjs[P.root].fmv

\* C11, amended: every PartnershipAsset P has P.fmv = P.share * P.original.fmv,
\* which is the fmv of the base Asset times the shares of all the proxies
\* from the base Asset up to P; the value is derived from the base Asset's
\* fmv and no rounding is hidden in it.
C11_DerivedFmv ==
    \A P \in AllProxies :
        /\ fmv(Net, P) * ShareDen =
               share(P) * fmv(Net, [P EXCEPT !.shares = SubSeq(@, 1, Len(@) - 1)])
        /\ fmv(Net, P) * Pow(ShareDen, Len(P.shares)) =
               Product(P.shares, Len(P.shares)) * assetObjs[P.root].fmv

\* a proxy of a proxy of an asset of some worth is in a list
C11_Witness ==
    \E P \in AllProxies : Len(P.shares) > 1 /\ assetObjs[P.root].fmv > 0

\* ------------------------------------------------------------ C14
\* the last transaction returned and in it F handed the Asset G to T
Handed(F, T, G) ==
    /\ Transacted
    /\ \/ last.entity1 = F /\ last.entity2 = T /\ last.good1 = AssetGood(G)
       \/ last.entity2 = F /\ last.entity1 = T /\ last.good2 = AssetGood(G)

LastTransaction ==
    Transaction(last.entity1, last.entity2, last.good1, last.good2,
                last.election754)

\* C15: a process_transaction that passes validation adjusts the basis (when
\* triggered), then computes the tax of entity1/good1 and of entity2/good2, then
\* moves good1 and good2: the tax records it leaves are those computed on the
\* network as the basis adjustment left it, before any good moved, and the
\* gain on a sold Asset is taken with the basis it had before the transfer.
C15_PipelineOrder ==
    Transacted =>
        /\ tax_records =
               DetermineTaxes(AdjustBasisIfNeeded(before, LastTransaction),
                              LastTransaction).tax_records
        /\ \A seller \in EntityIds, a \in AssetIds :
              (Sale(seller, a) /\ before.assetObjs[a].type_of_asset # "Annuity")
              => TaxAdded(seller) = Mul(remaining_share(before, seller), Gain(a))

\* a transaction whose taxes depend on the order: a Partnership went for cash
\* under election754, and the giver's tax is the one on the adjusted
\* inside_basis, not the one the network would have given as it stood
C15_Witness ==
    /\ Transacted
    /\ last.election754
    /\ last.good1.kind = "Partnership" /\ last.good2.kind = "cash"
    /\ last.entity1 # last.entity2
    /\ tax_records # DetermineTaxes(before, LastTransaction).tax_records
    /\ TaxAdded(last.entity1) # 0

\* ------------------------------------------------------------ C16
\* the names of the entities of N that hold an edge pointing at the name n
HoldersOf(N, n) ==
    { N.entityObjs[e].name :
        e \in { e \in 1..Len(N.entityObjs) :
                  \E p \in KeySet(N, e) : N.partnershipObjs[p].partner_name = n } }

\* the names met within fuel steps up from the name n
RECURSIVE Ancestors(_, _, _)
Ancestors(N, n, fuel) ==
    IF fuel = 0 THEN {}
    ELSE HoldersOf(N, n) \cup
         UNION { Ancestors(N, h, fuel - 1) : h \in HoldersOf(N, n) }

\* the partnership graph of N has no cycle
Acyclic(N) ==
    \A e \in 1..Len(N.entityObjs) :
        N.entityObjs[e].name \notin
            Ancestors(N, N.entityObjs[e].name, Len(N.entityObjs))

\* C16: on a network whose partnership graph is acyclic, add_asset,
\* add_partnership and process_transaction come to an end, returning or
\* raising: no upstream recursion goes on until the interpreter stops it.
C16_Termination ==
    Acyclic(before) => last.outcome # "diverged"

\* ------------------------------------------------------------ C12
\* the last process_transaction passed validation without election754, and in
\* it giver handed over the Asset a, of basis 1,000,000 and fmv 700,000, and
\* holder the Partnership p
LossDeal(giver, a, holder, p) ==
    /\ last.op = "process_transaction"
    /\ ~last.election754
    /\ \/ /\ last.entity1 = giver /\ last.good1 = AssetGood(a)
          /\ last.entity2 = holder /\ last.good2 = PartnershipGood(p)
       \/ /\ last.entity2 = giver /\ last.good2 = AssetGood(a)
          /\ last.entity1 = holder /\ last.good1 = PartnershipGood(p)
    /\ before.assetObjs[a].basis = 1000000 * Unit
    /\ before.assetObjs[a].fmv = 700000 * Unit

\* every PartnershipAsset of the list l has the inside_basis b
AllInside(l, b) == \A i \in DOMAIN l : l[i].inside_basis = b

\* C12: in a transaction without election754 in which one good is an Asset of
\* basis 1,000,000 and fmv 700,000 and the other a Partnership, step 2 is run
\* all the same: every PartnershipAsset under the Partnership ends step 2 with
\* inside_basis = 1,000,000, and has it still when the transaction has
\* returned and the Partnership is with another holder.
C12_BuiltInLossTrigger ==
    \A giver \in EntityIds, holder \in EntityIds,
       a \in AssetIds, p \in PartnershipIds :
        LossDeal(giver, a, holder, p) =>
            /\ AllInside(GetList(AdjustBasisIfNeeded(before, LastTransaction),
                                 holder, p),
                         1000000 * Unit)
            /\ (Transacted /\ giver # holder) =>
                  AllInside(GetList(Net, giver, p), 1000000 * Unit)

\* such a transaction returned, and a proxy under the Partnership had another
\* inside_basis before
C12_Witness ==
    \E giver \in EntityIds, holder \in EntityIds,
       a \in AssetIds, p \in PartnershipIds :
        /\ LossDeal(giver, a, holder, p)
        /\ Transacted /\ giver # holder
        /\ GetList(Net, giver, p) # <<>>
        /\ ~AllInside(GetList(before, holder, p), 1000000 * Unit)

\* ------------------------------------------------------------ C13
\* the loss the spec defines: basis - fmv for an Asset, the sum of
\* inside_basis - fmv over the non-Annuity PartnershipAssets of
\* entity.partnerships[good] for a Partnership, 0 for cash
RECURSIVE LossOver(_)
LossOver(l) ==
    IF l = <<>> THEN 0
    ELSE LossOver(Tail(l)) +
         IF assetObjs[Head(l).root].type_of_asset = "Annuity" THEN 0
         ELSE Head(l).inside_basis - fmv(Net, Head(l))

Loss(good, entity) ==
    CASE good.kind = "Asset" -> assetObjs[good.v].basis - assetObjs[good.v].fmv
      [] good.kind = "Partnership" -> LossOver(GetList(Net, entity, good.v))
      [] OTHER -> 0

\* the goods has_substantial_built_in_loss can be asked about for an entity:
\* any Asset, any Partnership the entity holds, any cash amount
Askable(e) ==
    {g \in Goods(CashAmounts \cup {250001 * Unit}) :
        g.kind = "Partnership" => g.v \in KeySet(Net, e)}

NewEntity == Len(entityObjs)
NewName == entityObjs[NewEntity].name

\* C17: add_entity with a fresh name registers a new Entity with
\* tax_records[name] = 0; add_entity with a name that is registered already
\* fails and leaves the Entity registered under the name, with its assets,
\* partnerships and cash, and its tax record as they were.
C17_AddEntity ==
    last.op = "add_entity" =>
        IF ~DictHas(before.entities, NewName)
        THEN /\ last.outcome = "ok"
             /\ DictHas(entities, NewName)
             /\ DictGet(entities, NewName) = NewEntity
             /\ tax_records[NewName] = 0
        ELSE /\ last.outcome # "ok"
             /\ DictGet(entities, NewName) = DictGet(before.entities, NewName)
             /\ entityObjs[DictGet(entities, NewName)] =
                    before.entityObjs[DictGet(before.entities, NewName)]
             /\ tax_records[NewName] = before.tax_records[NewName]

\* ------------------------------------------------------------ C18
\* C18: no add_entity, add_asset or add_partnership changes the tax record or
\* the cash balance that goes with a name registered before the call.
C18_ConstructionKeepsRecords ==
    last.op \in {"add_entity", "add_asset", "add_partnership"} =>
        \A n \in DOMAIN before.tax_records :
            /\ tax_records[n] = before.tax_records[n]
            /\ entityObjs[DictGet(entities, n)].cash_balance =
                   before.entityObjs[DictGet(before.entities, n)].cash_balance

\* ------------------------------------------------------------ C19
\* the sum of the cash balances of the registered entities and the sum of the
\* tax records, each taken along the registry
CashSum(N) ==
    SeqSum([k \in 1..Len(N.entities) |->
               N.entityObjs[DictGet(N.entities, N.entities[k].name)].cash_balance])

TaxSum(N) ==
    SeqSum([k \in 1..Len(N.entities) |-> N.tax_records[N.entities[k].name]])

\* C19: in every state fitness() = cash_balance() - tax_liability(), with
\* cash_balance() the sum of the entities' cash balances and tax_liability()
\* the sum of the tax records; a call of one of the three returns that value
\* and leaves the network as it found it.
C19_Fitness ==
    /\ cash_balance(Net) = CashSum(Net)
    /\ tax_liability(Net) = TaxSum(Net)
    /\ fitness(Net) = CashSum(Net) - TaxSum(Net)
    /\ last.op \in {"tax_liability", "cash_balance", "fitness"} =>
          /\ Net = before
          /\ last.result = CASE last.op = "tax_liability" -> TaxSum(before)
                             [] last.op = "cash_balance" -> CashSum(before)
                             [] last.op = "fitness" -> CashSum(before) - TaxSum(before)

\* fitness() was called on a network with a tax liability
C19_Witness ==
    /\ last.op = "fitness"
    /\ ntx > 0
    /\ TaxSum(Net) > 0
    /\ last.result = CashSum(Net) - TaxSum(Net)

\* ------------------------------------------------------------ C20
\* the Partnership the last add_partnership made
NewPartnership == Len(partnershipObjs)

\* C20: add_partnership(owner, partner, share) with a partner whose name is
\* not in the registry fails, and leaves no new edge in owner.partnerships.
C20_UnknownPartner ==
    ( /\ last.op = "add_partnership"
      /\ ~DictHas(before.entities, partnershipObjs[NewPartnership].partner_name) )
    => /\ last.outcome # "ok"
       /\ \A e \in EntityIds : NewPartnership \notin KeySet(Net, e)

\* ------------------------------------------------------------ C21
\* the last transaction returned, without election754, and in it seller gave
\* the Partnership p to another entity for cash
PartnershipSale(seller, p) ==
    /\ Transacted
    /\ ~last.election754
    /\ last.entity1 # last.entity2
    /\ \/ /\ last.entity1 = seller /\ last.good1 = PartnershipGood(p)
          /\ last.good2.kind = "cash"
       \/ /\ last.entity2 = seller /\ last.good2 = PartnershipGood(p)
          /\ last.good1.kind = "cash"

\* the Assets under the edge p of seller, in N
Under(N, seller, p) ==
    {GetList(N, seller, p)[i].root : i \in DOMAIN GetList(N, seller, p)}

\* the tax the last transaction added, over all entities
TotalTaxAdded == SeqSum([e \in EntityIds |-> TaxAdded(e)])

\* C21: when a seller gives the Partnership P for cash, in a network whose
\* lists were complete, the tax added over all entities is the gain
\* sum(fmv - inside_basis) over P's non-Annuity assets, and an entity with no
\* proxy of an asset under P is not taxed: what the upstream holders hold of
\* the seller's direct assets and other partnerships adds nothing.
C21_UpstreamScope ==
    \A seller \in EntityIds, p \in PartnershipIds :
        (PartnershipSale(seller, p) /\ AllComplete(before)) =>
            /\ TotalTaxAdded = ListGain(before, GetList(before, seller, p))
            /\ \A U \in EntityIds \ {seller} :
                  (\A i \in DOMAIN FlatPartnerships(before, U) :
                      FlatPartnerships(before, U)[i].root
                          \notin Under(before, seller, p))
                  => TaxAdded(U) = 0

\* ------------------------------------------------------------ C22
\* the proxies a holder of an edge of share s derives from the items of links
Derived(links, s) ==
    {[root |-> y.root, shares |-> Append(y.shares, s)] : y \in links}

\* What is derived from the items links of entity, at every level above it:
\* for each edge q pointing at entity, held by U, the proxies U derives from
\* links under q, and what is derived from those above U.
RECURSIVE DerivedAbove(_, _, _, _)
DerivedAbove(N, entity, links, fuel) ==
    IF fuel = 0 THEN {}
    ELSE UNION { UNION { {[holder |-> U, key |-> q, link |-> l] :
                             l \in Derived(links, N.partnershipObjs[q].share)}
                         \cup DerivedAbove(N, U,
                                  Derived(links, N.partnershipObjs[q].share),
                                  fuel - 1) :
                         q \in {q \in KeySet(N, U) : PointsAt(N, q, entity)} } :
                 U \in 1..Len(N.entityObjs) }

\* the links of the items under the edge p of entity
LinksUnder(N, entity, p) ==
    {Link(GetList(N, entity, p)[i]) : i \in DOMAIN GetList(N, entity, p)}

\* the last call was op(entity, p), a direct call that returned
CalledWith(op, entity, p) ==
    /\ last.op = op /\ last.outcome = "ok"
    /\ last.entity1 = entity /\ last.good1 = PartnershipGood(p)

\* C22: remove_partnership_upstream(entity, P) leaves every list as it was
\* less the proxies derived from the assets under P, at one level above
\* entity and at two or more: nothing else is removed and none of those
\* proxies is kept.
C22_RemovePartnershipUpstream ==
    \A entity \in EntityIds, p \in PartnershipIds :
        CalledWith("remove_partnership_upstream", entity, p) =>
            \A U \in EntityIds : \A q \in KeySet(before, U) :
                GetList(Net, U, q) =
                    SelectSeq(GetList(before, U, q),
                              LAMBDA x :
                                  [holder |-> U, key |-> q, link |-> Link(x)]
                                      \notin DerivedAbove(
                                                 before, entity,
                                                 LinksUnder(before, entity, p),
                                                 Len(before.entityObjs)))

\* ------------------------------------------------------------ C23
\* N after each of items[i..] has been propagated upstream from entity, one
\* proxy per edge and level for each item
RECURSIVE AddEach(_, _, _, _)
AddEach(N, entity, items, i) ==
    IF i > Len(items) THEN N
    ELSE AddEach(add_asset_upstream(N, entity, items[i], 1), entity, items, i + 1)

\* C23: add_partnership_upstream(entity, P) appends to every list above
\* entity, at one level and at two or more, one new proxy per PartnershipAsset
\* under P, with the share of the holder's edge and the inside_basis of the
\* wrapped proxy times that share, and nothing else: no second proxy of what
\* a holder already had.
C23_AddPartnershipUpstream ==
    \A entity \in EntityIds, p \in PartnershipIds :
        CalledWith("add_partnership_upstream", entity, p) =>
            \A U \in EntityIds : \A q \in KeySet(before, U) :
                SameItems(GetList(Net, U, q),
                          GetList(AddEach(before, entity,
                                          GetList(before, entity, p), 1),
                                  U, q))

\* ------------------------------------------------------------ C24
\* Network.adjust_ownership for the Asset G, up to the call of
\* remove_asset_upstream: the network that call finds
BeforeRemoval(N, F, T, G) ==
    Entity_remove_asset(
        add_asset_upstream(
            Entity_add_asset([N EXCEPT !.assetObjs[G].basis = N.assetObjs[G].fmv],
                             T, G),
            T, AssetItem(G), 1),
        F, G)

\* the last transaction returned and in it F sold the Asset G to T for cash
SoldTo(F, T, G) ==
    /\ Handed(F, T, G)
    /\ "cash" \in {last.good1.kind, last.good2.kind}

\* C24: remove_asset_upstream(entity, good), as adjust_ownership calls it for
\* the giver of an Asset: every list is left as the call found it less the
\* proxies derived from good through the giver, one per edge and level; the
\* other proxies stay, those of the same asset that came through the receiver
\* included.
C24_RemoveAssetUpstream ==
    \A F \in EntityIds, T \in EntityIds, G \in AssetIds :
        (SoldTo(F, T, G) /\ F # T /\ AllComplete(before)) =>
            \A U \in EntityIds : \A q \in KeySet(before, U) :
                GetList(Net, U, q) =
                    SelectSeq(GetList(BeforeRemoval(before, F, T, G), U, q),
                              LAMBDA x :
                                  [holder |-> U, key |-> q, link |-> Link(x)]
                                      \notin DerivedAbove(
                                                 before, F, {Link(AssetItem(G))},
                                                 Len(before.entityObjs)))

\* ------------------------------------------------------------ C25
\* The ways up from entity: for every edge q pointing at entity, held by U,
\* the shares met so far and q's, and the ways up from U; in the order in
\* which the entities and their edges are visited.
RECURSIVE Walks(_, _, _, _)
Walks(N, entity, chain, fuel) ==
    IF fuel = 0 THEN <<>>
    ELSE Flatten([U \in 1..Len(N.entityObjs) |->
             Flatten([j \in 1..Len(Keys(N, U)) |->
                 LET q == Keys(N, U)[j]
                     up == Append(chain, N.partnershipObjs[q].share)
                 IN IF PointsAt(N, q, entity)
                    THEN <<[holder |-> U, key |-> q, shares |-> up]>>
                             \o Walks(N, U, up, fuel - 1)
                    ELSE <<>>])])

\* the proxy of the Asset a at the end of a way up: k shares above a, with
\* the basis of a times the product of the k shares
ProxyAlong(N, a, shares) ==
    [root |-> a, shares |-> shares,
     inside_basis |-> (Product(shares, Len(shares)) * N.assetObjs[a].basis)
                          \div Pow(ShareDen, Len(shares))]

\* the proxies of a that the ways up from entity bring to the list of U under q
Brought(N, entity, a, U, q) ==
    LET ws == SelectSeq(Walks(N, entity, <<>>, Len(N.entityObjs)),
                        LAMBDA w : w.holder = U /\ w.key = q)
    IN [i \in 1..Len(ws) |-> ProxyAlong(N, a, ws[i].shares)]

\* the last call was op(entity, a) for the Asset a, and it returned
CalledForAsset(op, entity, a) ==
    /\ last.op = op /\ last.outcome = "ok"
    /\ last.entity1 = entity /\ last.good1 = AssetGood(a)

\* C25: add_asset_upstream(entity, good), for an Asset good, appends to the
\* list of every edge pointing at entity one proxy of good with the edge's
\* share and inside_basis = good.basis * share, and does the same from each
\* holder with the new proxy: every list keeps what it had, followed by one
\* proxy for each way up from entity to it, whose inside_basis and fmv are the
\* basis and fmv of good times the product of the shares on the way.  Nothing
\* else changes.
C25_AddAssetUpstream ==
    \A entity \in EntityIds, a \in AssetIds :
        CalledForAsset("add_asset_upstream", entity, a) =>
            /\ \A U \in EntityIds : \A q \in KeySet(before, U) :
                  LET old == GetList(before, U, q)
                      new == GetList(Net, U, q)
                      added == SubSeq(new, Len(old) + 1, Len(new))
                  IN /\ Len(new) >= Len(old)
                     /\ SubSeq(new, 1, Len(old)) = old
                     /\ SameItems(added, Brought(before, entity, a, U, q))
                     /\ \A i \in DOMAIN added :
                           fmv(Net, added[i]) * Pow(ShareDen, Len(added[i].shares))
                               = Product(added[i].shares, Len(added[i].shares))
                                     * assetObjs[a].fmv
            /\ \A U \in EntityIds :
                  /\ Keys(Net, U) = Keys(before, U)
                  /\ entityObjs[U].direct_assets = before.entityObjs[U].direct_assets
            /\ assetObjs = before.assetObjs
            /\ tax_records = before.tax_records

\* the call brought a proxy of an Asset of basis other than its fmv to a list
\* two or more levels up, through an edge of a holder that has another edge
C25_Witness ==
    \E entity \in EntityIds, a \in AssetIds :
        /\ CalledForAsset("add_asset_upstream", entity, a)
        /\ assetObjs[a].basis # assetObjs[a].fmv
        /\ \E U \in EntityIds : \E q \in KeySet(before, U) :
              /\ Len(GetList(Net, U, q)) > Len(GetList(before, U, q))
              /\ Len(GetList(Net, U, q)[Len(GetList(Net, U, q))].shares) >= 2
              /\ Cardinality(KeySet(before, U)) >= 2

\* ------------------------------------------------------------ C26
\* the last call was adjust_partner_basis for a transaction in which holder
\* gives the Partnership p, and it returned
Adjusted(holder, p) ==
    /\ last.op = "adjust_partner_basis" /\ last.outcome = "ok"
    /\ last.entity1 = holder /\ last.good1 = PartnershipGood(p)

\* the counterpart value of that transaction: the basis of the other side's
\* Asset, or the cash amount
CounterpartValue ==
    IF last.good2.kind = "Asset" THEN before.assetObjs[last.good2.v].basis
    ELSE last.good2.v

\* what the list of U under q has to show of the items under the edge p of
\* holder once each of them has the inside_basis v: for each way up from
\* holder to the list, one proxy of each item, with v times the shares on the
\* way
Corrected(N, holder, p, v, U, q) ==
    LET items == GetList(N, holder, p)
        ws == SelectSeq(Walks(N, holder, <<>>, Len(N.entityObjs)),
                        LAMBDA w : w.holder = U /\ w.key = q)
    IN Flatten([i \in 1..Len(ws) |->
           [k \in 1..Len(items) |->
               [root |-> items[k].root,
                shares |-> items[k].shares \o ws[i].shares,
                inside_basis |->
                    (Product(ws[i].shares, Len(ws[i].shares)) * v)
                        \div Pow(ShareDen, Len(ws[i].shares))]]])

\* C26: when adjust_partner_basis runs for a Partnership P given for an Asset
\* or for cash, every PartnershipAsset under P ends with inside_basis = the
\* counterpart value, and in every list above the holder, at any level, the
\* proxies of P's assets are the re-propagated ones alone: each with the
\* corrected value times the shares along its chain, none with a value
\* computed from the inside_basis of before.
C26_BasisAdjustment ==
    \A holder \in EntityIds, p \in PartnershipIds :
        Adjusted(holder, p) =>
            /\ AllInside(GetList(Net, holder, p), CounterpartValue)
            /\ \A U \in EntityIds : \A q \in KeySet(before, U) :
                  SameItems(
                      SelectSeq(GetList(Net, U, q),
                                LAMBDA x :
                                    [holder |-> U, key |-> q, link |-> Link(x)]
                                        \in DerivedAbove(
                                                before, holder,
                                                LinksUnder(before, holder, p),
                                                Len(before.entityObjs))),
                      Corrected(before, holder, p, CounterpartValue, U, q))

\* ------------------------------------------------------------ C27
\* the shares, in quarters, of the edges of N held by some entity whose
\* partner_name is the name of seller
SharesPointingAt(N, seller) ==
    SeqSum([p \in 1..Len(N.partnershipObjs) |->
               IF /\ \E e \in 1..Len(N.entityObjs) : p \in KeySet(N, e)
                  /\ N.partnershipObjs[p].partner_name = N.entityObjs[seller].name
               THEN N.partnershipObjs[p].share ELSE 0])

\* the last call is determine_tax(seller, a), a an Asset, and it returned
TaxedOnAsset(seller, a) ==
    /\ last.op = "determine_tax" /\ last.outcome = "ok"
    /\ last.entity1 = seller
    /\ last.good1 = AssetGood(a)

\* C27: determine_tax(seller, asset), for an Asset that is not an Annuity, adds
\* to tax_records[seller.name] exactly (1 - the sum of the shares of all
\* edges of the network whose partner_name is seller.name) x (fmv - basis).
C27_SellerTaxOnAsset ==
    \A seller \in EntityIds, a \in AssetIds :
        (TaxedOnAsset(seller, a) /\ before.assetObjs[a].type_of_asset # "Annuity")
        => TaxAdded(seller) * ShareDen =
               (ShareDen - SharesPointingAt(before, seller))
               * (before.assetObjs[a].fmv - before.assetObjs[a].basis)

\* the seller of a Material asset is held by two partners: half of the gain
\* is its own
C27_Witness ==
    \E seller \in EntityIds, a \in AssetIds :
        /\ TaxedOnAsset(seller, a)
        /\ before.assetObjs[a].type_of_asset # "Annuity"
        /\ SharesPointingAt(before, seller) = 2
        /\ TaxAdded(seller) = 40 * Unit

\* ------------------------------------------------------------ C28
\* the gains (fmv - inside_basis) of the proxies of the Asset a that the
\* entity U of N carries, one per proxy, summed over all its lists
ProxyGains(N, U, a) ==
    LET ks == Keys(N, U)
    IN SeqSum([j \in 1..Len(ks) |->
           LET l == GetList(N, U, ks[j])
           IN SeqSum([i \in 1..Len(l) |->
                  IF l[i].root = a /\ l[i].shares # <<>>
                  THEN fmv(N, l[i]) - l[i].inside_basis ELSE 0])])

\* C28: when determine_tax(seller, asset) taxes the sale of an Asset that is
\* not an Annuity, every entity above the seller is taxed on each of its
\* derived proxies of that asset exactly once: its tax record grows by
\* (1 - the sum of the shares of the edges pointing at it) x
\* (proxy.fmv - proxy.inside_basis), summed over its proxies of the asset, at
\* every level of the ownership chain.
C28_UpstreamTaxOnAsset ==
    \A seller \in EntityIds, a \in AssetIds :
        (TaxedOnAsset(seller, a) /\ before.assetObjs[a].type_of_asset # "Annuity")
        => \A U \in EntityIds \ {seller} :
               TaxAdded(U) * ShareDen =
                   (ShareDen - SharesPointingAt(before, U)) * ProxyGains(before, U, a)

\* ------------------------------------------------------------ C29
\* the last call is determine_tax(seller, p), p a Partnership, and it returned
TaxedOnPartnership(seller, p) ==
    /\ last.op = "determine_tax" /\ last.outcome = "ok"
    /\ last.entity1 = seller
    /\ last.good1 = PartnershipGood(p)

\* the proxies of the list that seller keeps in N under the edge p whose
\* Asset is, or is not, an Annuity
ProxiesUnder(N, seller, p, annuity) ==
    LET l == GetList(N, seller, p)
    IN {i \in DOMAIN l :
           (N.assetObjs[l[i].root].type_of_asset = "Annuity") = annuity}

\* fmv - inside_basis, summed over the proxies under p that are not Annuities
GainUnder(N, seller, p) ==
    LET l == GetList(N, seller, p)
    IN SeqSum([i \in 1..Len(l) |->
           IF i \in ProxiesUnder(N, seller, p, FALSE)
           THEN fmv(N, l[i]) - l[i].inside_basis ELSE 0])

\* C29: determine_tax(seller, P), for a Partnership P of the seller, adds to
\* tax_records[seller.name] exactly (1 - the sum of the shares of all edges
\* pointing at the seller) x the sum of fmv - inside_basis over the
\* PartnershipAssets of seller.partnerships[P] that are not Annuities; the
\* Annuity proxies add nothing.
C29_SellerTaxOnPartnership ==
    \A seller \in EntityIds, p \in PartnershipIds :
        TaxedOnPartnership(seller, p)
        => TaxAdded(seller) * ShareDen =
               (ShareDen - SharesPointingAt(before, seller))
               * GainUnder(before, seller, p)

\* the seller's list has an Annuity proxy and another one, an edge points at
\* the seller, and the seller is taxed
C29_Witness ==
    \E seller \in EntityIds, p \in PartnershipIds :
        /\ TaxedOnPartnership(seller, p)
        /\ ProxiesUnder(before, seller, p, TRUE) # {}
        /\ ProxiesUnder(before, seller, p, FALSE) # {}
        /\ SharesPointingAt(before, seller) > 0
        /\ TaxAdded(seller) > 0

\* ------------------------------------------------------------ C30
\* the good is cash or an Asset that was an Annuity when the call began
AnnuityOrCash(good) ==
    \/ good.kind = "cash"
    \/ /\ good.kind = "Asset"
       /\ before.assetObjs[good.v].type_of_asset = "Annuity"

\* C30: a process_transaction whose goods are only Annuity Assets and cash
\* leaves every entry of tax_records as it was, the seller's and that of
\* every partner above it, whatever the fmv and the basis of the asset.
C30_AnnuityUntaxed ==
    (Transacted /\ AnnuityOrCash(last.good1) /\ AnnuityOrCash(last.good2))
    => tax_records = before.tax_records

\* an Annuity worth more than its basis went for cash, out of an entity other
\* entities hold a share of
C30_Witness ==
    /\ Transacted
    /\ last.good1.kind = "Asset" /\ AnnuityOrCash(last.good1)
    /\ last.good2.kind = "cash"
    /\ before.assetObjs[last.good1.v].fmv > before.assetObjs[last.good1.v].basis
    /\ SharesPointingAt(before, last.entity1) > 0
    /\ Contains(entityObjs[last.entity2].direct_assets, last.good1.v)
    /\ tax_records = before.tax_records

\* ------------------------------------------------------------ C31
\* the last transaction returned and moved the Partnership p from F to T,
\* two entities
PartnershipMoved(F, T, p) ==
    /\ Transacted
    /\ F # T
    /\ \/ /\ last.entity1 = F /\ last.entity2 = T
          /\ last.good1 = PartnershipGood(p)
       \/ /\ last.entity2 = F /\ last.entity1 = T
          /\ last.good2 = PartnershipGood(p)

\* step 2 of the last transaction ran: election754 was set or a good had a
\* substantial built-in loss
BasisAdjusted ==
    \/ last.election754
    \/ built_in_loss(before, last.good1, last.entity1) > LossThreshold * Unit
    \/ built_in_loss(before, last.good2, last.entity2) > LossThreshold * Unit

\* the list of links of a list of proxies
Links(l) == [i \in DOMAIN l |-> Link(l[i])]

\* C31: after a process_transaction that returned and moved the Partnership P
\* from F to T, P is a key of T.partnerships and not of F.partnerships, and
\* T.partnerships[P] is the list of PartnershipAssets F had under P, in the
\* same order; when election754 is not set and no good has a substantial
\* built-in loss, each of them has the inside_basis it had before.
C31_PartnershipTransfer ==
    \A F \in EntityIds, T \in EntityIds, p \in PartnershipIds :
        PartnershipMoved(F, T, p) =>
            /\ p \in KeySet(Net, T)
            /\ p \notin KeySet(Net, F)
            /\ Links(GetList(Net, T, p)) = Links(GetList(before, F, p))
            /\ ~BasisAdjusted => GetList(Net, T, p) = GetList(before, F, p)

\* a Partnership with a list that is not empty went, without election, to an
\* entity another entity holds a share of
C31_Witness ==
    \E F \in EntityIds, T \in EntityIds, p \in PartnershipIds :
        /\ PartnershipMoved(F, T, p)
        /\ ~BasisAdjusted
        /\ GetList(Net, T, p) # <<>>
        /\ SharesPointingAt(before, T) > 0

\* ------------------------------------------------------------ C32
\* C32: on an acyclic graph, a process_transaction that passes the validation
\* of step 1 does not raise in steps 2 to 4, whatever the kinds of the two
\* goods and the value of election754: the call is rejected by step 1 or it
\* returns.
C32_NoRaiseAfterValidation ==
    last.op = "process_transaction" => last.outcome \in {"ok", "rejected"}

\* ------------------------------------------------------------ C33
\* the partnership graph once the last call is over: the network as it is, or,
\* after a call that died of its recursion, the keys that call left
GraphLeft ==
    IF last.outcome # "diverged" THEN Net
    ELSE [before EXCEPT !.entityObjs =
             [e \in DOMAIN @ |->
                 [@[e] EXCEPT !.partnerships =
                     [i \in DOMAIN last.left[e] |->
                         [key |-> last.left[e][i], assets |-> <<>>]]]]]

\* C33: process_transaction keeps the partnership graph acyclic: when no
\* entity reaches itself through Partnership edges before the call, none does
\* once the call is over, also when the edge that changes hands points at its
\* new holder or at an entity that holds, directly or not, an interest in the
\* new holder.
C33_AcyclicityPreserved ==
    (last.op = "process_transaction" /\ Acyclic(before)) => Acyclic(GraphLeft)

\* ------------------------------------------------------------ C34
\* the total of what the last transaction added to the tax records
TaxAddedInAll ==
    SeqSum([k \in 1..Len(entities) |->
               tax_records[entities[k].name] - before.tax_records[entities[k].name]])

\* C34: after a process_transaction that returned, cash_balance() of the
\* network is what it was before the call, whether cash is on one side, on
\* both or on neither, and fitness() has changed by minus the total the
\* transaction added to tax_records.
C34_CashConserved ==
    Transacted =>
        /\ cash_balance(Net) = cash_balance(before)
        /\ fitness(Net) = fitness(before) - TaxAddedInAll

\* cash went from one entity to another for an Asset whose sale was taxed
C34_Witness ==
    /\ Transacted
    /\ last.entity1 # last.entity2
    /\ "cash" \in {last.good1.kind, last.good2.kind}
    /\ entityObjs[last.entity1].cash_balance
           # before.entityObjs[last.entity1].cash_balance
    /\ TaxAddedInAll > 0
    /\ fitness(Net) < fitness(before)

\* ------------------------------------------------------------ C35
\* the entities that have the edge p among the keys of their partnerships
HoldersOfEdge(p) == {e \in EntityIds : p \in KeySet(Net, e)}

\* C35: every Partnership edge that add_partnership made is, after every call
\* that returned, a key of the partnerships of exactly one entity: no
\* transaction that returns, one between an entity and itself included, makes
\* an edge disappear or leaves it with two holders.
C35_EdgeHeldOnce ==
    Running => \A p \in PartnershipIds : Cardinality(HoldersOfEdge(p)) = 1

\* ------------------------------------------------------------ C36
\* a derived list as the sequence of (resolved asset name, share,
\* inside_basis, nesting depth) of its proxies
Described(N, l) ==
    [i \in DOMAIN l |->
        <<name(N, l[i]), share(l[i]), l[i].inside_basis, Len(l[i].shares)>>]

\* C36: update_initial_partnership_assets, called a second time right after
\* the call add_asset or add_partnership made, leaves every derived list the
\* sequence of (resolved asset name, share, inside_basis, nesting depth) it
\* was, for chains of any depth and any order of registration.
C36_RebuildIdempotent ==
    (last.op = "update_initial_partnership_assets" /\ last.outcome = "ok")
    => \A e \in EntityIds :
           /\ Keys(Net, e) = Keys(before, e)
           /\ \A p \in KeySet(before, e) :
                 Described(Net, GetList(Net, e, p))
                     = Described(before, GetList(before, e, p))

\* ------------------------------------------------------------ C37
\* C37: the entities start with cash balances that are not negative and the
\* transactions name cash amounts that are not negative; after any sequence
\* of process_transaction calls, rejected or not, no entity has a negative
\* cash_balance.
C37_CashNeverNegative ==
    \A e \in EntityIds : entityObjs[e].cash_balance >= 0

\* an entity paid all the cash it had in the second transaction of a run
C37_Witness ==
    /\ Transacted
    /\ ntx = 2
    /\ \E e \in EntityIds :
          /\ before.entityObjs[e].cash_balance > 0
          /\ entityObjs[e].cash_balance = 0

\* ------------------------------------------------------------ C38
\* the Asset a had been transferred before the last transaction began: no
\* asset is created with basis = fmv unless it is an Annuity, and the step-up
\* of a transfer is the only assignment to basis
TransferredBefore(a) ==
    /\ ntx >= 2
    /\ before.assetObjs[a].type_of_asset # "Annuity"
    /\ before.assetObjs[a].basis = before.assetObjs[a].fmv

\* holder has, in N, a proxy of the Asset a under an edge that points at seller
HoldsProxyOf(N, holder, seller, a) ==
    \E p \in KeySet(N, holder) :
        /\ PointsAt(N, p, seller)
        /\ \E i \in 1..Len(GetList(N, holder, p)) :
              GetList(N, holder, p)[i].root = a

DirectProxies(N, e, p, a) ==
    LET l == GetList(N, e, p)
    IN {i \in 1..Len(l) :
           Link(l[i]) = [root |-> a, shares |-> <<N.partnershipObjs[p].share>>]}

\* in N, some edge has a proxy of a directly owned Asset of its partner whose
\* inside_basis is not the asset's basis times the share
SomeProxyAdjusted(N) ==
    \E e \in 1..Len(N.entityObjs) : \E p \in KeySet(N, e) :
        \E a \in Range(N.entityObjs[Partner(N, p)].direct_assets) :
            \E i \in DirectProxies(N, e, p, a) :
                GetList(N, e, p)[i].inside_basis
                    # Mul(N.partnershipObjs[p].share, N.assetObjs[a].basis)

\* C39: after an add_asset or add_partnership that returned, for every edge P
\* held by an entity and pointing at Q and every Asset that Q owns directly,
\* the list under P has a proxy of that Asset, and its inside_basis is the
\* asset's basis times P.share, whatever an earlier adjust_partner_basis had
\* made of it.
C39_ConstructionResetsBasis ==
    (last.op \in {"add_asset", "add_partnership"} /\ last.outcome = "ok")
    => \A e \in EntityIds : \A p \in KeySet(Net, e) :
          \A a \in Range(entityObjs[Partner(Net, p)].direct_assets) :
              /\ DirectProxies(Net, e, p, a) # {}
              /\ \A i \in DirectProxies(Net, e, p, a) :
                    GetList(Net, e, p)[i].inside_basis
                        = Mul(partnershipObjs[p].share, assetObjs[a].basis)

\* a construction call that found a proxy with an adjusted inside_basis
C39_Witness ==
    /\ last.op \in {"add_asset", "add_partnership"}
    /\ last.outcome = "ok"
    /\ ntx = 1
    /\ SomeProxyAdjusted(before)

====
